---- MODULE Spec2Model ----
(***************************************************************************)
(* BootstrapTreeview of widgetastic.patternfly: the tree widget's          *)
(* operations (expand_node, collapse_node, expand_path, click_path,        *)
(* has_path, read_contents) as a state machine over the rendered tree,     *)
(* with the check_node, uncheck_node and node_checked of                   *)
(* CheckableBootstrapTreeview; and FlashMessages (messages, read, dismiss, *)
(* assert_no_error) over the list of notifications of the page.           *)
(*                                                                         *)
(* The page is the state: a flat list of <li> items in document order,     *)
(* each with its data-nodeid attribute, its indent spans, its text and     *)
(* image, and the class of its expand icon (collapsed, loading, expanded). *)
(* The widget's methods run on a call stack; the browser acts between      *)
(* the polls of wait_for.                                                  *)
(***************************************************************************)
EXTENDS Integers, Sequences, FiniteSets, TLC

VARIABLES tree, state, rendered, checked, stack, ret, call, pre, sub, clicks,
          validated, last, msgs, flash, flog, dropdown, accordion, datepicker

\* The tree page and the calls of the tree widgets; the notifications page
\* and the call of FlashMessages; the dropdown, the accordion and the years
\* view of the date picker, each with the call made on it.
treeVars == <<tree, state, rendered, checked, stack, ret, call, pre, sub, clicks,
              validated, last>>
flashVars == <<msgs, flash, flog>>
widgetVars == <<dropdown, accordion, datepicker>>

vars == <<treeVars, flashVars, widgetVars>>

\* The fields of the records of the model: every record lists its fields in
\* this order.
FieldOrder ==
    [alert |-> 1, aria |-> 2, attempt |-> 3, cause |-> 4, check |-> 5,
     checkable |-> 6, clicked |-> 7, cls |-> 8, collapse |-> 9, cur |-> 10,
     enabled |-> 11, exc |-> 12, expandable |-> 13, filter |-> 14,
     first |-> 15, fn |-> 16, gone |-> 17, handle |-> 18, held |-> 19,
     i |-> 20, id |-> 21, ignore |-> 22, image |-> 23, images |-> 24,
     indent |-> 25, index |-> 26, inverse |-> 27, isopen |-> 28, item |-> 29,
     kids |-> 30, kind |-> 31, lis |-> 32, nexts |-> 33, node |-> 34,
     nodeid |-> 35, op |-> 36, out |-> 37, panel |-> 38, parent |-> 39,
     partial |-> 40, path |-> 41, pauses |-> 42, pc |-> 43, picked |-> 44,
     polls |-> 45, prevs |-> 46, rd |-> 47, res |-> 48, result |-> 49,
     seen |-> 50, st |-> 51, start |-> 52, step |-> 53, stop |-> 54,
     t |-> 55, text |-> 56, title |-> 57, tried |-> 58, tries |-> 59,
     tuple |-> 60, val |-> 61, value |-> 62, waits |-> 63, was |-> 64,
     wild |-> 65, yielded |-> 66]

(* ---------------------------------------------------------------- bounds *)

\* Polls a wait_for makes before it gives up (num_sec / delay in the code).
MaxPolls == 2
\* Longest path handed to expand_path, click_path, has_path.
MaxPath == 3
\* The years a test asks the date picker for.
FirstYear == 1990
LastYear == 2030

(* ------------------------------------------------------------------ text *)

\* Strings are sequences of characters, so that starts-with, contains and
\* re.match are computed, not assumed.
IsPrefix(p, s) == Len(p) <= Len(s) /\ SubSeq(s, 1, Len(p)) = p

\* XPath contains(haystack, needle)
Contains(s, needle) ==
    \E i \in 0..(Len(s) - Len(needle)) : SubSeq(s, i + 1, i + Len(needle)) = needle

\* Pattern.match(text): the pattern, tried at position 0 of the text only.
\* Patterns are sequences of atoms: "^" (start), "$" (end), "." (any
\* character) and literal characters.
RECURSIVE ReMatchAt(_, _, _)
ReMatchAt(pat, text, pos) ==
    IF pat = <<>> THEN TRUE
    ELSE LET a == Head(pat) IN
         IF a = "^" THEN pos = 0 /\ ReMatchAt(Tail(pat), text, pos)
         ELSE IF a = "$" THEN pos = Len(text) /\ ReMatchAt(Tail(pat), text, pos)
         ELSE /\ pos < Len(text)
              /\ (a = "." \/ text[pos + 1] = a)
              /\ ReMatchAt(Tail(pat), text, pos + 1)

ReMatch(pat, text) == ReMatchAt(pat, text, 0)

(* ----------------------------------------------------------------- pages *)

\* No node (Python None) and no image.
None == 0
NoImage == "none"

Li(nodeid, parent, indent, text, image, expandable) ==
    [checkable |-> FALSE, expandable |-> expandable, image |-> image,
     indent |-> indent, nodeid |-> nodeid, parent |-> parent, text |-> text,
     title |-> <<>>]

\* One root "1" with children "1.1" (child "1.1.1") and "1.2"; the two
\* children carry the same text and different images.
TreeSingle ==
    << Li(<<"1">>, None, 0, <<"P", "1">>, "fa-a", TRUE),
       Li(<<"1", ".", "1">>, 1, 1, <<"C", "1">>, "fa-a", TRUE),
       Li(<<"1", ".", "1", ".", "1">>, 2, 2, <<"P", "1">>, NoImage, FALSE),
       Li(<<"1", ".", "2">>, 1, 1, <<"C", "1">>, "fa-b", FALSE) >>

\* Eleven roots "0" .. "10"; "1" has the child "1.0" and "10" the child
\* "10.0".
TreeWide ==
    << Li(<<"0">>, None, 0, <<"R">>, NoImage, FALSE),
       Li(<<"1">>, None, 0, <<"P", "1">>, "fa-a", TRUE),
       Li(<<"1", ".", "0">>, 2, 1, <<"P", "1">>, NoImage, FALSE),
       Li(<<"2">>, None, 0, <<"R">>, NoImage, FALSE),
       Li(<<"3">>, None, 0, <<"R">>, NoImage, FALSE),
       Li(<<"4">>, None, 0, <<"R">>, NoImage, FALSE),
       Li(<<"5">>, None, 0, <<"R">>, NoImage, FALSE),
       Li(<<"6">>, None, 0, <<"R">>, NoImage, FALSE),
       Li(<<"7">>, None, 0, <<"R">>, NoImage, FALSE),
       Li(<<"8">>, None, 0, <<"R">>, NoImage, FALSE),
       Li(<<"9">>, None, 0, <<"R">>, NoImage, FALSE),
       Li(<<"1", "0">>, None, 0, <<"R">>, "fa-a", TRUE),
       Li(<<"1", "0", ".", "0">>, 12, 1, <<"C", "1">>, "fa-b", FALSE) >>

Trees == {TreeSingle, TreeWide}

\* One root "0" with two expandable children, "0.0" (child "0.0.0") and
\* "0.1" (child "0.1.0").
TreePair ==
    << Li(<<"0">>, None, 0, <<"P", "1">>, NoImage, TRUE),
       Li(<<"0", ".", "0">>, 1, 1, <<"C", "1">>, NoImage, TRUE),
       Li(<<"0", ".", "0", ".", "0">>, 2, 2, <<"P", "1">>, NoImage, FALSE),
       Li(<<"0", ".", "1">>, 1, 1, <<"C", "1">>, NoImage, TRUE),
       Li(<<"0", ".", "1", ".", "0">>, 4, 2, <<"P", "1">>, NoImage, FALSE) >>

\* The single-root page with a check icon in the items "1.1" and "1.2".
Checkbox(li) == [li EXCEPT !.checkable = TRUE]

TreeCheckable ==
    << TreeSingle[1], Checkbox(TreeSingle[2]), TreeSingle[3],
       Checkbox(TreeSingle[4]) >>

Nodes == 1..Len(tree)

\* The tree the page shows: n's parent, children and descendants.
Kids(n) == {c \in Nodes : tree[c].parent = n}

RECURSIVE IsAncestor(_, _)
IsAncestor(a, n) ==
    /\ tree[n].parent # None
    /\ (tree[n].parent = a \/ IsAncestor(a, tree[n].parent))

Descendants(n) == {d \in Nodes : IsAncestor(n, d)}

\* Descendants of n shown once n is expanded: every node between is expanded.
Shown(n, st) ==
    {d \in Descendants(n) :
        \A a \in Descendants(n) : IsAncestor(a, d) => st[a] = "expanded"}

Elems(seq) == {seq[k] : k \in 1..Len(seq)}

\* A sorted sequence of a set of nodes: document order.
RECURSIVE DocOrder(_)
DocOrder(S) ==
    IF S = {} THEN <<>>
    ELSE LET m == CHOOSE x \in S : \A y \in S : x <= y
         IN <<m>> \o DocOrder(S \ {m})

(* ------------------------------------------------------- locator queries *)

\* browser.text(node), get_attribute('data-nodeid', node), indents(node)
Text(n) == tree[n].text
GetNodeid(n) == tree[n].nodeid
Indents(n) == tree[n].indent

\* image_getter(node): the image name, None when the item has no image.
ImageGetter(n) == tree[n].image

\* ROOT_ITEMS: the items without an indent span.
RootItems == DocOrder({n \in rendered : tree[n].indent = 0})

\* Mutant of RootItem: the single root item is never looked up.
RootItem_Never == None

\* ROOT_ITEM './ul/li[1]' when there is exactly one root item.
RootItem ==
    IF Len(RootItems) = 1
    THEN CHOOSE n \in rendered : \A m \in rendered : n <= m
    ELSE None

IsExpandable(n) == tree[n].expandable
IsExpanded(n) == state[n] = "expanded"
IsLoading(n) == state[n] = "loading"

\* Mutant of IsCollapsed: every node is taken for collapsed.
IsCollapsed_Always(n) == TRUE

\* Mutant of IsCollapsed: the icon of a collapsed node is looked for.
IsCollapsed_Icon(n) == state[n] = "collapsed"

IsCollapsed(n) == ~IsExpanded(n)

\* Mutant of ChildItems: the indent count is not compared.
ChildItems_AnyIndent(item) ==
    IF item # None
    THEN DocOrder({n \in rendered :
            /\ IsPrefix(GetNodeid(item), tree[n].nodeid)
            /\ tree[n].nodeid # GetNodeid(item)})
    ELSE RootItems

\* CHILD_ITEMS: starts-with(@data-nodeid, id), not the node itself, and one
\* indent span more than the node; ROOT_ITEMS when there is no node.
ChildItems(item) ==
    IF item # None
    THEN DocOrder({n \in rendered :
            /\ IsPrefix(GetNodeid(item), tree[n].nodeid)
            /\ tree[n].nodeid # GetNodeid(item)
            /\ tree[n].indent = Indents(item) + 1})
    ELSE RootItems

\* Mutant of ChildItemsWithText: only the title attribute is compared.
ChildItemsWithText_TitleOnly(item, text) ==
    IF item # None
    THEN DocOrder({n \in rendered :
            /\ IsPrefix(GetNodeid(item), tree[n].nodeid)
            /\ tree[n].nodeid # GetNodeid(item)
            /\ Contains(tree[n].title, text)
            /\ tree[n].indent = Indents(item) + 1})
    ELSE DocOrder({n \in rendered :
            tree[n].indent = 0 /\ Contains(tree[n].title, text)})

\* CHILD_ITEMS_TEXT / ROOT_ITEMS_WITH_TEXT: the same, filtered by text.
ChildItemsWithText(item, text) ==
    IF item # None
    THEN DocOrder({n \in rendered :
            /\ IsPrefix(GetNodeid(item), tree[n].nodeid)
            /\ tree[n].nodeid # GetNodeid(item)
            /\ (Contains(tree[n].title, text) \/ Contains(tree[n].text, text))
            /\ tree[n].indent = Indents(item) + 1})
    ELSE DocOrder({n \in rendered :
            tree[n].indent = 0 /\ Contains(tree[n].text, text)})

\* ITEM_BY_NODEID: the first item with that data-nodeid, None when the
\* lookup raises NoSuchElementException.
ItemByNodeid(nodeid) ==
    LET found == {n \in rendered : tree[n].nodeid = nodeid}
    IN IF found = {} THEN None ELSE CHOOSE n \in found : \A m \in found : n <= m

(* ------------------------------------------------------------ call stack *)

Top == stack[Len(stack)]
Pop == SubSeq(stack, 1, Len(stack) - 1)
Running(fn, pc) == stack # <<>> /\ Top.fn = fn /\ Top.pc = pc
Goto(frame) == stack' = [stack EXCEPT ![Len(stack)] = frame]
Push(caller, callee) == stack' = Append([stack EXCEPT ![Len(stack)] = caller], callee)

NoRet == [cause |-> "", kind |-> "none", val |-> FALSE]
Value(v) == [cause |-> "", kind |-> "value", val |-> v]
Exc(e, cause) == [cause |-> cause, kind |-> "raise", val |-> e]
Return(v) == stack' = Pop /\ ret' = Value(v)
Raise(e, cause) == stack' = Pop /\ ret' = Exc(e, cause)

Idle == stack = <<>>
Done == stack = <<>> /\ ret.kind # "none"

(* --------------------------------------------------------------- browser *)

\* What a click on the expand icon of n may do to the page: an expanded node
\* collapses (its descendants stay in the list hidden, or leave it); a
\* collapsed node expands at once or starts loading; the effect of a click on
\* a loading node is the page's own.
ArrowOutcomes(n) ==
    IF state[n] = "expanded"
    THEN {[rd |-> r, st |-> [state EXCEPT ![n] = "collapsed"]] :
            r \in {rendered, rendered \ Descendants(n)}}
    ELSE {[rd |-> IF s = "expanded"
                  THEN rendered \cup Shown(n, state) ELSE rendered,
           st |-> [state EXCEPT ![n] = s]] :
            s \in IF state[n] = "collapsed"
                  THEN {"loading", "expanded"}
                  ELSE {"loading", "expanded", "collapsed"}}

ClickArrow(n) ==
    /\ \E o \in ArrowOutcomes(n) : state' = o.st /\ rendered' = o.rd
    /\ clicks' = Append(clicks, [kind |-> "arrow", node |-> n, was |-> state[n]])

\* The page finishes loading a node: it shows the children, or the load
\* fails and the node is collapsed again.
BrowserLoad ==
    \E n \in Nodes : \E s \in {"expanded", "collapsed"} :
        /\ state[n] = "loading"
        /\ state' = [state EXCEPT ![n] = s]
        /\ rendered' = IF s = "expanded"
                       THEN rendered \cup Shown(n, state) ELSE rendered
        /\ UNCHANGED <<widgetVars, flashVars, tree, checked, last, stack, ret, call, pre, sub, clicks, validated>>

\* The page does what it likes with an expandable node while a call runs:
\* a reload, a script of the page, another user of the same session.
BrowserChange ==
    \E n \in Nodes : \E s \in {"collapsed", "loading", "expanded"} :
        /\ stack # <<>>
        /\ IsExpandable(n)
        /\ state[n] # s
        /\ state' = [state EXCEPT ![n] = s]
        /\ rendered' = IF s = "expanded"
                       THEN rendered \cup Shown(n, state) ELSE rendered
        /\ UNCHANGED <<widgetVars, flashVars, tree, checked, last, stack, ret, call, pre, sub, clicks, validated>>

(* ------------------------------------------------- expand_node, collapse *)

NodeFrame(fn, nodeid) == [fn |-> fn, nodeid |-> nodeid, pc |-> "start", polls |-> 0]

\* expand_node up to its first wait_for.
ExpandNodeStart ==
    /\ Running("expand_node", "start")
    /\ LET node == ItemByNodeid(Top.nodeid) IN
       IF node = None
       THEN Raise("CandidateNotFound", "nodeid") /\ UNCHANGED <<state, rendered, clicks>>
       ELSE IF ~IsExpandable(node)
       THEN Return(FALSE) /\ UNCHANGED <<state, rendered, clicks>>
       ELSE IF IsCollapsed(node)
       THEN /\ ClickArrow(node)
            /\ Goto([Top EXCEPT !.pc = "wait_loading"])
            /\ UNCHANGED ret
       ELSE Return(TRUE) /\ UNCHANGED <<state, rendered, clicks>>
    /\ UNCHANGED <<widgetVars, flashVars, tree, checked, last, call, pre, sub, validated>>

\* The item a wait_for condition looks up again at every poll.
PolledItem == ItemByNodeid(Top.nodeid)

\* Mutant of WaitPoll: a wait that runs out of polls counts as a wait whose
\* condition held (wait_for with silent_failure).
WaitPoll_Silent(holds, next) ==
    IF PolledItem = None
    THEN Raise("CandidateNotFound", "nodeid")
    ELSE IF holds \/ Top.polls >= MaxPolls
    THEN IF next = "return"
         THEN Return(TRUE)
         ELSE Goto([Top EXCEPT !.pc = next, !.polls = 0]) /\ UNCHANGED ret
    ELSE Goto([Top EXCEPT !.polls = @ + 1]) /\ UNCHANGED ret

\* Mutant of WaitPoll: the wait has no num_sec and polls until the
\* condition holds.
WaitPoll_Forever(holds, next) ==
    IF PolledItem = None
    THEN Raise("CandidateNotFound", "nodeid")
    ELSE IF holds
    THEN IF next = "return"
         THEN Return(TRUE)
         ELSE Goto([Top EXCEPT !.pc = next, !.polls = 0]) /\ UNCHANGED ret
    ELSE Goto(Top) /\ UNCHANGED ret

\* One poll of wait_for(lambda: cond(get_item_by_nodeid(nodeid))), holds
\* being the condition's value: it holds and the wait ends at pc next (or the
\* method returns True when next is "return"); or it does not, and the wait
\* sleeps or times out.
WaitPoll(holds, next) ==
    IF PolledItem = None
    THEN Raise("CandidateNotFound", "nodeid")
    ELSE IF holds
    THEN IF next = "return"
         THEN Return(TRUE)
         ELSE Goto([Top EXCEPT !.pc = next, !.polls = 0]) /\ UNCHANGED ret
    ELSE IF Top.polls < MaxPolls
    THEN Goto([Top EXCEPT !.polls = @ + 1]) /\ UNCHANGED ret
    ELSE Raise("TimedOutError", "")

\* The conditions polled.
NotLoading == PolledItem # None /\ ~IsLoading(PolledItem)
NowExpanded == PolledItem # None /\ IsExpanded(PolledItem)
NowCollapsed == PolledItem # None /\ IsCollapsed(PolledItem)

\* Mutant of ExpandNodeWaitLoading: the method returns once the node is
\* not loading, without the second wait.
ExpandNodeWaitLoading_NoConfirm ==
    /\ Running("expand_node", "wait_loading")
    /\ WaitPoll(NotLoading, "return")
    /\ UNCHANGED <<widgetVars, flashVars, tree, checked, last, state, rendered, call, pre, sub, clicks, validated>>

\* The first wait of expand_node: until the node is not loading.
ExpandNodeWaitLoading ==
    /\ Running("expand_node", "wait_loading")
    /\ WaitPoll(NotLoading, "wait_expanded")
    /\ UNCHANGED <<widgetVars, flashVars, tree, checked, last, state, rendered, call, pre, sub, clicks, validated>>

\* The second wait of expand_node: until the node is expanded.
ExpandNodeWaitExpanded ==
    /\ Running("expand_node", "wait_expanded")
    /\ WaitPoll(NowExpanded, "return")
    /\ UNCHANGED <<widgetVars, flashVars, tree, checked, last, state, rendered, call, pre, sub, clicks, validated>>

CollapseNodeStart ==
    /\ Running("collapse_node", "start")
    /\ LET node == ItemByNodeid(Top.nodeid) IN
       IF node = None
       THEN Raise("CandidateNotFound", "nodeid") /\ UNCHANGED <<state, rendered, clicks>>
       ELSE IF ~IsExpandable(node)
       THEN Return(FALSE) /\ UNCHANGED <<state, rendered, clicks>>
       ELSE IF IsExpanded(node)
       THEN /\ ClickArrow(node)
            /\ Goto([Top EXCEPT !.pc = "wait_collapsed"])
            /\ UNCHANGED ret
       ELSE Return(TRUE) /\ UNCHANGED <<state, rendered, clicks>>
    /\ UNCHANGED <<widgetVars, flashVars, tree, checked, last, call, pre, sub, validated>>

CollapseNodeWaitCollapsed ==
    /\ Running("collapse_node", "wait_collapsed")
    /\ WaitPoll(NowCollapsed, "return")
    /\ UNCHANGED <<widgetVars, flashVars, tree, checked, last, state, rendered, call, pre, sub, clicks, validated>>

(* ------------------------------------------------------------ path steps *)

\* A step of a path as the caller writes it: a string or a compiled pattern,
\* alone or in a 2-tuple (image, step).
StrStep(val) == [image |-> NoImage, kind |-> "str", tuple |-> FALSE, val |-> val]
ReStep(val) == [image |-> NoImage, kind |-> "re", tuple |-> FALSE, val |-> val]
ImageStep(image, step) == [step EXCEPT !.tuple = TRUE, !.image = image]

Steps ==
    { StrStep(<<"P", "1">>), StrStep(<<"C", "1">>), StrStep(<<"C">>),
      ReStep(<<"^", "C">>),
      ImageStep("fa-b", StrStep(<<"C", "1">>)) }

Paths == UNION {[1..k -> Steps] : k \in 1..MaxPath}

\* _process_step: (image, step), the image None unless the step is a tuple.
ProcessStep(step) ==
    [image |-> IF step.tuple THEN step.image ELSE NoImage,
     kind |-> step.kind, val |-> step.val]

\* Mutant of ValidateNode: a string step is compared by containment.
ValidateNode_Contains(node, matcher, image) ==
    LET text == Text(node)
        match == IF matcher.kind = "re"
                 THEN ReMatch(matcher.val, text)
                 ELSE Contains(text, matcher.val)
    IN IF ~match THEN FALSE
       ELSE IF image # NoImage /\ ImageGetter(node) # image THEN FALSE
       ELSE TRUE

\* validate_node(node, matcher, image)
ValidateNode(node, matcher, image) ==
    LET text == Text(node)
        match == IF matcher.kind = "re"
                 THEN ReMatch(matcher.val, text)
                 ELSE matcher.val = text
    IN IF ~match THEN FALSE
       ELSE IF image # NoImage /\ ImageGetter(node) # image THEN FALSE
       ELSE TRUE

\* The record kept of one validate_node call.
Validation(node, ps) ==
    [node |-> node, res |-> ValidateNode(node, ps, ps.image), step |-> ps]

(* ----------------------------------------------------------- expand_path *)

PathFrame(path) ==
    [fn |-> "expand_path", i |-> 1, node |-> None, path |-> path,
     pc |-> "start", tried |-> 0]

\* expand_path up to its loop: the root item, when there is exactly one, is
\* validated against the first step.
ExpandPathStart ==
    /\ Running("expand_path", "start")
    /\ LET node == RootItem
           ps == ProcessStep(Top.path[1])
       IN IF node # None
          THEN /\ validated' = Append(validated, Validation(node, ps))
               /\ IF ~ValidateNode(node, ps, ps.image)
                  THEN Raise("CandidateNotFound", "Root node did not match")
                  ELSE /\ Goto([Top EXCEPT !.pc = "loop", !.path = Tail(@),
                                           !.tried = 1, !.node = node])
                       /\ UNCHANGED ret
          ELSE /\ Goto([Top EXCEPT !.pc = "loop"])
               /\ UNCHANGED <<ret, validated>>
    /\ UNCHANGED <<widgetVars, flashVars, tree, checked, last, state, rendered, call, pre, sub, clicks>>

\* The index in items of the first item validate_node accepts, 0 if none.
FirstMatch(items, ps) ==
    LET hits == {k \in 1..Len(items) : ValidateNode(items[k], ps, ps.image)}
    IN IF hits = {} THEN 0 ELSE CHOOSE k \in hits : \A j \in hits : k <= j

\* The body of the loop after the expansion: the candidates are scanned in
\* document order up to the first one validate_node accepts. f is the frame
\* with steps_tried already extended.
MatchStep(f) ==
    LET ps == ProcessStep(f.path[f.i])
        items == IF ps.kind = "str"
                 THEN ChildItemsWithText(f.node, ps.val)
                 ELSE ChildItems(f.node)
        k == FirstMatch(items, ps)
        scanned == IF k = 0 THEN Len(items) ELSE k
    IN /\ validated' = validated \o [j \in 1..scanned |-> Validation(items[j], ps)]
       /\ IF k # 0
          THEN /\ Goto([f EXCEPT !.pc = "loop", !.node = items[k], !.i = @ + 1])
               /\ UNCHANGED ret
          ELSE IF f.tried < 2
          THEN Raise("IndexError", "steps_tried[-2]")
          ELSE Raise("CandidateNotFound", "Was not found")

\* One turn of the loop: return the node after the last step; otherwise
\* expand the current node, or, without a current node, match at once.
ExpandPathLoop ==
    /\ Running("expand_path", "loop")
    /\ IF Top.i > Len(Top.path)
       THEN Return(Top.node) /\ UNCHANGED validated
       ELSE LET f == [Top EXCEPT !.tried = @ + 1] IN
            IF f.node # None
            THEN /\ Push([f EXCEPT !.pc = "ret_expand"],
                         NodeFrame("expand_node", GetNodeid(f.node)))
                 /\ UNCHANGED <<ret, validated>>
            ELSE MatchStep(f)
    /\ UNCHANGED <<widgetVars, flashVars, tree, checked, last, state, rendered, call, pre, sub, clicks>>

\* Mutant of ExpandPathRetExpand: what expand_node returned is not looked at.
ExpandPathRetExpand_IgnoreResult ==
    /\ Running("expand_path", "ret_expand")
    /\ ret.kind # "none"
    /\ IF ret.kind = "raise"
       THEN stack' = Pop /\ UNCHANGED <<ret, validated>>
       ELSE MatchStep(Top)
    /\ UNCHANGED <<widgetVars, flashVars, tree, checked, last, state, rendered, call, pre, sub, clicks>>

\* expand_node has returned into the loop.
ExpandPathRetExpand ==
    /\ Running("expand_path", "ret_expand")
    /\ ret.kind # "none"
    /\ IF ret.kind = "raise"
       THEN stack' = Pop /\ UNCHANGED <<ret, validated>>
       ELSE IF ret.val = FALSE
       THEN Raise("CandidateNotFound", "Could not expand") /\ UNCHANGED validated
       ELSE MatchStep(Top)
    /\ UNCHANGED <<widgetVars, flashVars, tree, checked, last, state, rendered, call, pre, sub, clicks>>

(* -------------------------------------------------- click_path, has_path *)

CallerFrame(fn) == [fn |-> fn, pc |-> "ret_expand_path"]

\* Mutant of ClickPathRet: the node validated last is clicked also when
\* expand_path raised.
ClickPathRet_ClickOnError ==
    /\ Running("click_path", "ret_expand_path")
    /\ ret.kind # "none"
    /\ stack' = Pop
    /\ sub' = ret
    /\ LET node == IF ret.kind = "value" THEN ret.val
                   ELSE IF validated # <<>> THEN validated[Len(validated)].node
                   ELSE None
       IN IF node = None
          THEN UNCHANGED <<ret, clicks>>
          ELSE /\ clicks' = Append(clicks, [kind |-> "node", node |-> node,
                                            was |-> state[node]])
               /\ UNCHANGED ret
    /\ UNCHANGED <<widgetVars, flashVars, tree, checked, last, state, rendered, call, pre, validated>>

\* click_path after expand_path: the leaf is clicked and returned.
ClickPathRet ==
    /\ Running("click_path", "ret_expand_path")
    /\ ret.kind # "none"
    /\ stack' = Pop
    /\ sub' = ret
    /\ IF ret.kind = "raise"
       THEN UNCHANGED <<ret, clicks>>
       ELSE /\ clicks' = Append(clicks, [kind |-> "node", node |-> ret.val,
                                         was |-> state[ret.val]])
            /\ UNCHANGED ret
    /\ UNCHANGED <<widgetVars, flashVars, tree, checked, last, state, rendered, call, pre, validated>>

\* Mutant of HasPathRet: every exception becomes False.
HasPathRet_CatchAll ==
    /\ Running("has_path", "ret_expand_path")
    /\ ret.kind # "none"
    /\ stack' = Pop
    /\ sub' = ret
    /\ ret' = Value(ret.kind = "value")
    /\ UNCHANGED <<widgetVars, flashVars, tree, checked, last, state, rendered, call, pre, clicks, validated>>

\* has_path after expand_path: CandidateNotFound becomes False.
HasPathRet ==
    /\ Running("has_path", "ret_expand_path")
    /\ ret.kind # "none"
    /\ stack' = Pop
    /\ sub' = ret
    /\ IF ret.kind = "value"
       THEN ret' = Value(TRUE)
       ELSE IF ret.val = "CandidateNotFound"
       THEN ret' = Value(FALSE)
       ELSE UNCHANGED ret
    /\ UNCHANGED <<widgetVars, flashVars, tree, checked, last, state, rendered, call, pre, clicks, validated>>

(* ------------------------------------------ CheckableBootstrapTreeview *)

\* IS_CHECKABLE, IS_CHECKED: the item has a check icon; the icon is checked.
IsCheckable(item) == tree[item].checkable
IsChecked(item) == tree[item].checkable /\ item \in checked

\* browser.click(IS_CHECKABLE, parent=leaf): the page toggles the check icon.
ClickCheckbox(leaf) ==
    /\ checked' = IF leaf \in checked THEN checked \ {leaf} ELSE checked \cup {leaf}
    /\ clicks' = Append(clicks, [kind |-> "check", node |-> leaf,
                                 was |-> IF leaf \in checked THEN "checked"
                                         ELSE "unchecked"])

\* check_node(*path) is check_uncheck_node(True, *path), uncheck_node(*path)
\* is check_uncheck_node(False, *path).
CheckFrame(check) ==
    [check |-> check, fn |-> "check_uncheck_node", pc |-> "ret_expand_path"]

\* Mutant of CheckUncheckNodeRet: the checkbox is clicked whatever its state.
CheckUncheckNodeRet_AlwaysClick ==
    /\ Running("check_uncheck_node", "ret_expand_path")
    /\ ret.kind # "none"
    /\ sub' = ret
    /\ IF ret.kind = "raise"
       THEN stack' = Pop /\ UNCHANGED <<ret, checked, clicks>>
       ELSE LET leaf == ret.val IN
            IF ~IsCheckable(leaf)
            THEN Raise("TypeError", "is not checkable") /\ UNCHANGED <<checked, clicks>>
            ELSE ClickCheckbox(leaf) /\ Return(TRUE)
    /\ UNCHANGED <<widgetVars, flashVars, tree, last, state, rendered, call, pre, validated>>

\* Mutant of CheckUncheckNodeRet: the check icon is not looked for.
CheckUncheckNodeRet_NoTypeError ==
    /\ Running("check_uncheck_node", "ret_expand_path")
    /\ ret.kind # "none"
    /\ sub' = ret
    /\ IF ret.kind = "raise"
       THEN stack' = Pop /\ UNCHANGED <<ret, checked, clicks>>
       ELSE LET leaf == ret.val IN
            IF (leaf \in checked) # Top.check
            THEN ClickCheckbox(leaf) /\ Return(TRUE)
            ELSE Return(FALSE) /\ UNCHANGED <<checked, clicks>>
    /\ UNCHANGED <<widgetVars, flashVars, tree, last, state, rendered, call, pre, validated>>

\* check_uncheck_node after expand_path: a leaf without a check icon is a
\* TypeError; the icon is clicked when its state is not the one asked for.
CheckUncheckNodeRet ==
    /\ Running("check_uncheck_node", "ret_expand_path")
    /\ ret.kind # "none"
    /\ sub' = ret
    /\ IF ret.kind = "raise"
       THEN stack' = Pop /\ UNCHANGED <<ret, checked, clicks>>
       ELSE LET leaf == ret.val IN
            IF ~IsCheckable(leaf)
            THEN Raise("TypeError", "is not checkable") /\ UNCHANGED <<checked, clicks>>
            ELSE IF IsChecked(leaf) # Top.check
            THEN ClickCheckbox(leaf) /\ Return(TRUE)
            ELSE Return(FALSE) /\ UNCHANGED <<checked, clicks>>
    /\ UNCHANGED <<widgetVars, flashVars, tree, last, state, rendered, call, pre, validated>>

\* node_checked after expand_path: False for a leaf without a check icon,
\* otherwise whether the icon is checked.
NodeCheckedRet ==
    /\ Running("node_checked", "ret_expand_path")
    /\ ret.kind # "none"
    /\ sub' = ret
    /\ IF ret.kind = "raise"
       THEN stack' = Pop /\ UNCHANGED ret
       ELSE LET leaf == ret.val IN
            IF ~IsCheckable(leaf)
            THEN Return(FALSE)
            ELSE Return(IsChecked(leaf))
    /\ UNCHANGED <<widgetVars, flashVars, tree, checked, last, state, rendered, call, pre, clicks, validated>>

(* --------------------------------------------------------- read_contents *)

\* The nodeid argument left out (Python None).
NoNodeid == <<>>

ReadFrame(nodeid, images, collapse) ==
    [collapse |-> collapse, fn |-> "read_contents", images |-> images,
     item |-> None, kids |-> <<>>, nodeid |-> nodeid, pc |-> "start",
     result |-> <<>>]

\* Mutant of ReadContentsStart: the node is read as the list shows it,
\* without expand_node.
ReadContentsStart_NoExpand ==
    /\ Running("read_contents", "start")
    /\ LET nodeid == IF Top.nodeid = NoNodeid /\ RootItem # None
                     THEN GetNodeid(RootItem) ELSE Top.nodeid
           item == ItemByNodeid(nodeid)
       IN IF item = None
          THEN Raise("CandidateNotFound", "nodeid")
          ELSE /\ Goto([Top EXCEPT !.nodeid = nodeid, !.item = item,
                                   !.kids = ChildItems(item), !.pc = "children"])
               /\ UNCHANGED ret
    /\ UNCHANGED <<widgetVars, flashVars, tree, checked, last, state, rendered, call, pre, sub, clicks, validated>>

\* read_contents up to expand_node: without a nodeid and with a single root
\* item the call starts over at the root's nodeid.
ReadContentsStart ==
    /\ Running("read_contents", "start")
    /\ LET nodeid == IF Top.nodeid = NoNodeid /\ RootItem # None
                     THEN GetNodeid(RootItem) ELSE Top.nodeid
           item == ItemByNodeid(nodeid)
       IN IF item = None
          THEN Raise("CandidateNotFound", "nodeid")
          ELSE /\ Push([Top EXCEPT !.nodeid = nodeid, !.item = item,
                                   !.pc = "ret_expand"],
                       NodeFrame("expand_node", nodeid))
               /\ UNCHANGED ret
    /\ UNCHANGED <<widgetVars, flashVars, tree, checked, last, state, rendered, call, pre, sub, clicks, validated>>

\* expand_node has returned (its result is not used): the children are
\* looked up.
ReadContentsRetExpand ==
    /\ Running("read_contents", "ret_expand")
    /\ ret.kind # "none"
    /\ IF ret.kind = "raise"
       THEN stack' = Pop
       ELSE Goto([Top EXCEPT !.kids = ChildItems(Top.item), !.pc = "children"])
    /\ UNCHANGED <<widgetVars, flashVars, tree, checked, last, state, rendered, ret, call, pre, sub, clicks, validated>>

\* The values read_contents builds: a str, a tuple (image, text) and a list
\* [this_item, result]. The three Python types are kept apart.
PyStr(text) == [kind |-> "str", text |-> text]
PyTuple(image, text) == [image |-> image, kind |-> "tuple", text |-> text]
PyList(this, result) == [item |-> this, kids |-> result, kind |-> "list"]

\* What read_contents returns: the item's text, or (image, text) with
\* include_images, alone or with the list of its children's contents when
\* there are any.
ThisResult(f) ==
    LET this_item == IF f.images
                     THEN PyTuple(ImageGetter(f.item), Text(f.item))
                     ELSE PyStr(Text(f.item))
    IN IF f.result # <<>> THEN PyList(this_item, f.result) ELSE this_item

\* Mutant of ReadContentsChildren: collapse_after_read is not looked at.
ReadContentsChildren_NoCollapse ==
    /\ Running("read_contents", "children")
    /\ IF Top.kids # <<>>
       THEN /\ Push([Top EXCEPT !.pc = "ret_child"],
                    ReadFrame(GetNodeid(Head(Top.kids)), Top.images, Top.collapse))
            /\ UNCHANGED ret
       ELSE Return(ThisResult(Top))
    /\ UNCHANGED <<widgetVars, flashVars, tree, checked, last, state, rendered, call, pre, sub, clicks, validated>>

\* Mutant of ReadContentsChildren: collapse_after_read is not handed on to
\* the calls for the children.
ReadContentsChildren_CollapseNotPassed ==
    /\ Running("read_contents", "children")
    /\ IF Top.kids # <<>>
       THEN /\ Push([Top EXCEPT !.pc = "ret_child"],
                    ReadFrame(GetNodeid(Head(Top.kids)), Top.images, FALSE))
            /\ UNCHANGED ret
       ELSE IF Top.collapse
       THEN /\ Push([Top EXCEPT !.pc = "ret_collapse"],
                    NodeFrame("collapse_node", Top.nodeid))
            /\ UNCHANGED ret
       ELSE Return(ThisResult(Top))
    /\ UNCHANGED <<widgetVars, flashVars, tree, checked, last, state, rendered, call, pre, sub, clicks, validated>>

\* The loop over the children and what follows it: the next child is read;
\* after the last one the node is collapsed if collapse_after_read is set.
ReadContentsChildren ==
    /\ Running("read_contents", "children")
    /\ IF Top.kids # <<>>
       THEN /\ Push([Top EXCEPT !.pc = "ret_child"],
                    ReadFrame(GetNodeid(Head(Top.kids)), Top.images, Top.collapse))
            /\ UNCHANGED ret
       ELSE IF Top.collapse
       THEN /\ Push([Top EXCEPT !.pc = "ret_collapse"],
                    NodeFrame("collapse_node", Top.nodeid))
            /\ UNCHANGED ret
       ELSE Return(ThisResult(Top))
    /\ UNCHANGED <<widgetVars, flashVars, tree, checked, last, state, rendered, call, pre, sub, clicks, validated>>

\* The recursive call for a child has returned: its contents are appended.
ReadContentsRetChild ==
    /\ Running("read_contents", "ret_child")
    /\ ret.kind # "none"
    /\ IF ret.kind = "raise"
       THEN stack' = Pop
       ELSE Goto([Top EXCEPT !.result = Append(@, ret.val), !.kids = Tail(@),
                             !.pc = "children"])
    /\ UNCHANGED <<widgetVars, flashVars, tree, checked, last, state, rendered, ret, call, pre, sub, clicks, validated>>

\* collapse_node has returned (its result is not used).
ReadContentsRetCollapse ==
    /\ Running("read_contents", "ret_collapse")
    /\ ret.kind # "none"
    /\ IF ret.kind = "raise"
       THEN stack' = Pop /\ UNCHANGED ret
       ELSE Return(ThisResult(Top))
    /\ UNCHANGED <<widgetVars, flashVars, tree, checked, last, state, rendered, call, pre, sub, clicks, validated>>

(* ----------------------------------------------------------------- calls *)

NodeIds == {tree[n].nodeid : n \in Nodes}

\* The methods of CheckableBootstrapTreeview the test calls one after the
\* other, and what the test keeps of the call before: the method, its path
\* and what it returned or raised.
CheckOps == {"check_node", "uncheck_node", "node_checked"}

NoLast == [kind |-> "none", op |-> "none", path |-> <<>>, val |-> FALSE]

NoCall ==
    [collapse |-> FALSE, images |-> FALSE, nodeid |-> <<>>, op |-> "none",
     path |-> <<>>]

\* The test calls a method of the widget: frames is the call stack the call
\* sets up, the method's own frame on top of the frame of each method that
\* does nothing before calling it.
StartCall(op, nodeid, path, images, collapse, frames) ==
    /\ Idle
    /\ ret.kind = "none"
    /\ call' = [collapse |-> collapse, images |-> images, nodeid |-> nodeid,
                op |-> op, path |-> path]
    /\ pre' = state
    /\ sub' = NoRet
    /\ stack' = frames
    /\ clicks' = <<>>
    /\ validated' = <<>>
    /\ UNCHANGED <<widgetVars, flashVars, tree, checked, last, state, rendered, ret>>

\* The call has ended; the test takes its result and goes on.
CallEnds ==
    /\ Done
    /\ ret' = NoRet
    /\ call' = NoCall
    /\ pre' = state
    /\ sub' = NoRet
    /\ clicks' = <<>>
    /\ validated' = <<>>
    /\ last' = IF call.op \in CheckOps
               THEN [kind |-> ret.kind, op |-> call.op, path |-> call.path,
                     val |-> ret.val]
               ELSE last
    /\ UNCHANGED <<widgetVars, flashVars, tree, checked, state, rendered, stack>>

CallExpandNode ==
    \E id \in NodeIds :
        StartCall("expand_node", id, <<>>, FALSE, FALSE, <<NodeFrame("expand_node", id)>>)

CallCollapseNode ==
    \E id \in NodeIds :
        StartCall("collapse_node", id, <<>>, FALSE, FALSE, <<NodeFrame("collapse_node", id)>>)

\* read_contents(nodeid, include_images=..., collapse_after_read=...); the
\* nodeid is left out on pages with a single root item only.
CallReadContents ==
    \E id \in NodeIds \cup {NoNodeid} : \E images, collapse \in BOOLEAN :
        /\ id = NoNodeid => RootItem # None
        /\ StartCall("read_contents", id, <<>>, images, collapse,
                     <<ReadFrame(id, images, collapse)>>)

CallExpandPath ==
    \E path \in Paths :
        StartCall("expand_path", <<>>, path, FALSE, FALSE, <<PathFrame(path)>>)

CallClickPath ==
    \E path \in Paths :
        StartCall("click_path", <<>>, path, FALSE, FALSE,
                  <<CallerFrame("click_path"), PathFrame(path)>>)

CallHasPath ==
    \E path \in Paths :
        StartCall("has_path", <<>>, path, FALSE, FALSE,
                  <<CallerFrame("has_path"), PathFrame(path)>>)

\* The paths of the calls of the checkable tree: to the root, to each of its
\* children, to its grandchild, and to a child the page does not have.
CheckPaths ==
    { <<StrStep(<<"P", "1">>)>>,
      <<StrStep(<<"P", "1">>), StrStep(<<"C", "1">>)>>,
      <<StrStep(<<"P", "1">>), ImageStep("fa-b", StrStep(<<"C", "1">>))>>,
      <<StrStep(<<"P", "1">>), StrStep(<<"C", "1">>), StrStep(<<"P", "1">>)>>,
      <<StrStep(<<"P", "1">>), StrStep(<<"C">>)>> }

CallCheckNode ==
    \E path \in CheckPaths :
        StartCall("check_node", <<>>, path, FALSE, FALSE,
                  <<CheckFrame(TRUE), PathFrame(path)>>)

CallUncheckNode ==
    \E path \in CheckPaths :
        StartCall("uncheck_node", <<>>, path, FALSE, FALSE,
                  <<CheckFrame(FALSE), PathFrame(path)>>)

CallNodeChecked ==
    \E path \in CheckPaths :
        StartCall("node_checked", <<>>, path, FALSE, FALSE,
                  <<CallerFrame("node_checked"), PathFrame(path)>>)

(* --------------------------------------------------------- FlashMessages *)

\* Longest list of notifications the page starts with.
MaxMsgs == 3

\* retry_element: attempts = 10.
RetryAttempts == 10

\* TYPE_MAPPING of FlashMessage: the alert class of a notification's div and
\* the type it stands for.
AlertClasses == {"alert-warning", "alert-success", "alert-danger", "alert-info"}

TypeMapping(class) ==
    CASE class = "alert-warning" -> "warning"
      [] class = "alert-success" -> "success"
      [] class = "alert-danger" -> "error"
      [] class = "alert-info" -> "info"

\* The texts of the notifications of the page.
AlertTexts == {<<"a">>, <<"a", "b">>}

\* A notification: a div with an alert class and its text; id tells the
\* notifications of a page apart (the widget does not see it).
Alert(id, class, text) == [alert |-> class, id |-> id, text |-> text]

\* The pages of up to MaxMsgs notifications of the given kinds (class and
\* text) in display order.
Pages(kinds) ==
    UNION {{[k \in 1..n |-> Alert(k, page[k].alert, page[k].text)] :
                page \in [1..n -> kinds]} :
           n \in 0..MaxMsgs}

AlertPages == Pages([alert : AlertClasses, text : AlertTexts])

\* The pages a consumer iterates over: of three kinds of notification.
IterPages ==
    Pages({ [alert |-> "alert-success", text |-> <<"a">>],
            [alert |-> "alert-danger", text |-> <<"a", "b">>],
            [alert |-> "alert-warning", text |-> <<"a">>] })

\* msg_count: the number of divs MSG_LOCATOR finds.
MsgCount == Len(msgs)

\* FlashMessage(index=j) is on the page: its ROOT, position()={index}, finds
\* a div. Otherwise reading the view raises NoSuchElementException.
OnPage(j) == j \in 1..MsgCount

\* FlashMessage.text and FlashMessage.type of the notification at index j.
MsgText(j) == msgs[j].text
MsgType(j) == TypeMapping(msgs[j].alert)

\* The page after the click on the close button of the notification at j.
DismissAt(j) == [k \in 1..(MsgCount - 1) |-> IF k < j THEN msgs[k] ELSE msgs[k + 1]]

\* msg_filter: text (None, a str or a compiled pattern), t (None is the
\* empty set of types), partial, inverse, index (None or an int).
NoIndex == -1
NoText == [kind |-> "none", val |-> <<>>]
StrText(val) == [kind |-> "str", val |-> val]
ReText(val) == [kind |-> "re", val |-> val]

MsgFilter(text, t, partial, inverse, index) ==
    [index |-> index, inverse |-> inverse, partial |-> partial, t |-> t,
     text |-> text]

\* Mutant of Op: inverse is not looked at.
Op_Bool(inverse, b) == b

\* op = not_ if inverse else bool
Op(inverse, b) == IF inverse THEN ~b ELSE b

\* The three filter tests of messages() on the notification at index j: the
\* notification is yielded when none of them says continue.
Passes(f, j) ==
    /\ ~(f.t # {} /\ ~Op(f.inverse, MsgType(j) \in f.t))
    /\ ~(f.text.kind = "re" /\ ~Op(f.inverse, ReMatch(f.text.val, MsgText(j))))
    /\ ~(f.text.kind = "str" /\
            ~Op(f.inverse, \/ f.partial /\ Contains(MsgText(j), f.text.val)
                           \/ ~f.partial /\ f.text.val = MsgText(j)))

\* messages() reads the notification only for a test of its type or text.
ReadsPage(f) == f.t # {} \/ f.text.kind # "none"

\* The call of FlashMessages in progress: the generator messages() with its
\* loop variable i and its stop, the XPath indexes of the FlashMessage views
\* it has yielded (held), the list read() builds (out), the attempt of
\* retry_element (its loop variable) and the number of its time.sleep(0.5)
\* calls (pauses), and the result (res).
FlashFrame(op, filter, ignore) ==
    [attempt |-> 0, filter |-> filter, held |-> <<>>, i |-> 0,
     ignore |-> ignore, op |-> op, out |-> <<>>, pauses |-> 0, pc |-> "start",
     res |-> NoRet, stop |-> 0]

NoFlash ==
    [FlashFrame("none", MsgFilter(NoText, {}, FALSE, FALSE, NoIndex), {})
        EXCEPT !.pc = "idle"]

\* What happened in the call: the page it started on, the ids of the
\* notifications this messages() looked at (seen) and yielded, the ids dismissed
\* (gone), whether a dismissed notification had not been yielded (wild), and
\* how many times the method's body was entered (tries).
NoLog == [gone |-> <<>>, seen |-> <<>>, start |-> <<>>, tries |-> 0,
          wild |-> FALSE, yielded |-> <<>>]

\* The methods decorated with retry_element (assert_no_error calls read).
Retried == {"read", "dismiss", "assert_no_error"}

\* The exceptions retry_element catches.
Caught == {"StaleElementReferenceException", "NoSuchElementException"}

\* Mutant of FlashRaise: the loop makes one attempt more.
FlashRaise_OneMore(e) ==
    IF flash.op \in Retried /\ e \in Caught /\ flash.attempt < RetryAttempts
    THEN flash' = [flash EXCEPT !.attempt = @ + 1, !.pauses = @ + 1,
                                !.pc = "start"]
    ELSE flash' = [flash EXCEPT !.pc = "done", !.res = Exc(e, "")]

\* An exception e leaves the method: retry_element sleeps and calls the
\* method again after an exception it catches, unless this was the last
\* attempt, which raises it.
FlashRaise(e) ==
    IF flash.op \in Retried /\ e \in Caught /\ flash.attempt < RetryAttempts - 1
    THEN flash' = [flash EXCEPT !.attempt = @ + 1, !.pauses = @ + 1,
                                !.pc = "start"]
    ELSE flash' = [flash EXCEPT !.pc = "done", !.res = Exc(e, "")]

\* The page re-renders its notifications while a method runs: the method's
\* next use of an element raises StaleElementReferenceException.
PageStale ==
    /\ flash.pc \in {"run", "yield"}
    /\ flash.op \in Retried
    /\ FlashRaise("StaleElementReferenceException")
    /\ UNCHANGED <<widgetVars, treeVars, msgs, flog>>

\* messages() up to its loop: start and stop of range(start, stop).
MessagesStart ==
    /\ flash.pc = "start"
    /\ LET index == flash.filter.index
           start == IF index # NoIndex THEN index + 1 ELSE 1
           stop == IF index # NoIndex THEN start + 1 ELSE MsgCount + 1
       IN flash' = [flash EXCEPT !.i = start, !.stop = stop, !.pc = "run",
                                 !.held = <<>>, !.out = <<>>]
    /\ flog' = [flog EXCEPT !.tries = @ + 1, !.seen = <<>>, !.yielded = <<>>]
    /\ UNCHANGED <<widgetVars, treeVars, msgs>>

\* Mutant of XPathIndex: the index is not re-calculated.
XPathIndex_Fixed(fr) == fr.i

\* Mutant of XPathIndex: the count is taken for the new stop.
XPathIndex_OffByOne(fr) ==
    IF fr.filter.index # NoIndex THEN fr.i ELSE fr.i - (fr.stop - MsgCount)

\* j, the XPath index of the notification of iteration i.
XPathIndex(fr) ==
    IF fr.filter.index # NoIndex
    THEN fr.i
    ELSE fr.i - (fr.stop - (MsgCount + 1))

\* Mutant of AssertNoErrorResult: ignore_messages is not looked at.
AssertNoErrorResult_NoIgnore(errs, ignore) ==
    IF Elems(errs) # {} THEN Exc("AssertionError", "") ELSE Value(None)

\* assert_no_error after read(): set(errs) - set(ignore_messages).
AssertNoErrorResult(errs, ignore) ==
    IF Elems(errs) \ ignore # {} THEN Exc("AssertionError", "") ELSE Value(None)

\* The loop of messages() has ended: read() returns its list, dismiss()
\* returns, assert_no_error() looks at what read() returned, and the consumer
\* of messages() gets StopIteration.
Exhausted ==
    flash' = [flash EXCEPT
                !.pc = "done",
                !.res = IF flash.op = "read" THEN Value(flash.out)
                        ELSE IF flash.op = "assert_no_error"
                        THEN AssertNoErrorResult(flash.out, flash.ignore)
                        ELSE Value(None)]

\* One turn of the loop of messages(): the notification at index j is
\* tested against the filter and yielded, or the loop continues.
MessagesNext ==
    /\ flash.pc = "run"
    /\ LET f == flash.filter
           j == XPathIndex(flash)
           id == IF OnPage(j) THEN msgs[j].id ELSE None
       IN IF flash.i >= flash.stop
          THEN Exhausted /\ UNCHANGED flog
          ELSE IF ReadsPage(f) /\ ~OnPage(j)
          THEN FlashRaise("NoSuchElementException") /\ UNCHANGED flog
          ELSE IF ReadsPage(f) /\ ~Passes(f, j)
          THEN /\ flash' = [flash EXCEPT !.i = @ + 1]
               /\ flog' = [flog EXCEPT !.seen = Append(@, id)]
          ELSE /\ flash' = [flash EXCEPT !.pc = "yield", !.held = Append(@, j)]
               /\ flog' = [flog EXCEPT !.seen = Append(@, id),
                                       !.yielded = Append(@, id)]
    /\ UNCHANGED <<widgetVars, treeVars, msgs>>

\* The FlashMessage view yielded last.
Current == flash.held[Len(flash.held)]

\* read(): msg.text of the view yielded goes to the list.
ReadYield ==
    /\ flash.pc = "yield"
    /\ flash.op \in {"read", "assert_no_error"}
    /\ IF OnPage(Current)
       THEN flash' = [flash EXCEPT !.out = Append(@, MsgText(Current)),
                                   !.i = @ + 1, !.pc = "run"]
       ELSE FlashRaise("NoSuchElementException")
    /\ UNCHANGED <<widgetVars, treeVars, msgs, flog>>

\* FlashMessage.dismiss() of the view with XPath index j: its text is
\* logged and its close button clicked; the page removes the notification.
DismissMessage(j) ==
    /\ msgs' = DismissAt(j)
    /\ flog' = [flog EXCEPT !.gone = Append(@, msgs[j].id),
                            !.wild = @ \/ msgs[j].id \notin Elems(flog.yielded)]

\* dismiss(): the view yielded is dismissed.
DismissYield ==
    /\ flash.pc = "yield"
    /\ flash.op = "dismiss"
    /\ IF OnPage(Current)
       THEN /\ DismissMessage(Current)
            /\ flash' = [flash EXCEPT !.i = @ + 1, !.pc = "run"]
       ELSE FlashRaise("NoSuchElementException") /\ UNCHANGED <<msgs, flog>>
    /\ UNCHANGED <<widgetVars, treeVars>>

\* The consumer of messages() dismisses one of the views it was given.
ConsumerDismiss ==
    /\ flash.pc = "yield"
    /\ flash.op = "messages"
    /\ \E k \in 1..Len(flash.held) :
        IF OnPage(flash.held[k])
        THEN DismissMessage(flash.held[k]) /\ UNCHANGED flash
        ELSE FlashRaise("NoSuchElementException") /\ UNCHANGED <<msgs, flog>>
    /\ UNCHANGED <<widgetVars, treeVars>>

\* The consumer of messages() asks for the next view.
ConsumerNext ==
    /\ flash.pc = "yield"
    /\ flash.op = "messages"
    /\ flash' = [flash EXCEPT !.i = @ + 1, !.pc = "run"]
    /\ UNCHANGED <<widgetVars, treeVars, msgs, flog>>

\* The call has ended; the test takes its result and goes on.
FlashEnds ==
    /\ flash.pc = "done"
    /\ flash' = NoFlash
    /\ flog' = NoLog
    /\ UNCHANGED <<widgetVars, treeVars, msgs>>

\* The filters of the calls.
TextFilters ==
    {NoText, StrText(<<"a">>), StrText(<<"b">>), ReText(<<"a", "b">>)}

TypeFilters == {{}, {"success"}, {"success", "info", "warning"}}

Filters ==
    {MsgFilter(text, t, partial, inverse, NoIndex) :
        text \in TextFilters, t \in TypeFilters, partial \in BOOLEAN,
        inverse \in BOOLEAN}
    \cup {MsgFilter(NoText, {}, FALSE, FALSE, index) : index \in 0..(MaxMsgs - 1)}

FlashCall(op, filter, ignore) ==
    /\ flash = NoFlash
    /\ flash' = FlashFrame(op, filter, ignore)
    /\ flog' = [NoLog EXCEPT !.start = msgs]
    /\ UNCHANGED <<widgetVars, treeVars, msgs>>

\* The filters of the consumer's iterations: none, a type, a text in part,
\* and a text inverted.
IterFilters ==
    { MsgFilter(NoText, {}, FALSE, FALSE, NoIndex),
      MsgFilter(NoText, {"success"}, FALSE, FALSE, NoIndex),
      MsgFilter(StrText(<<"b">>), {}, TRUE, FALSE, NoIndex),
      MsgFilter(StrText(<<"a">>), {}, FALSE, TRUE, NoIndex) }

CallMessages == \E f \in IterFilters : FlashCall("messages", f, {})

CallRead == \E f \in Filters : FlashCall("read", f, {})

CallDismiss == FlashCall("dismiss", NoFlash.filter, {})

\* assert_no_error(ignore_messages): msg_filter is t = {success, info,
\* warning}, inverse = True.
CallAssertNoError ==
    \E ignore \in SUBSET AlertTexts :
        FlashCall("assert_no_error",
                  MsgFilter(NoText, {"success", "info", "warning"}, FALSE, TRUE,
                            NoIndex),
                  ignore)

(* -------------------------------------------------------------- Dropdown *)

\* The two Dropdown classes of the package: the one of __init__.py, which
\* the package exports, and the one of dropdowns.py.
DropdownClasses == {"__init__", "dropdowns"}

\* The texts of the items of the dropdown, and a text no item has.
DropdownItems == {"a", "b"}
NoSuchItem == "x"

\* handle_alert=None, True or False.
HandleAlert == {"None", "True", "False"}

NoExc == "none"

\* The dropdown of the page (the button enabled or not, the menu open or
\* not, for each item whether its li is disabled, a JavaScript alert open or
\* not) and the call of item_select on it: the class, the arguments, the
\* clicks made and the exception on its way out.
DropdownPage(enabled, isopen, lis) ==
    [alert |-> FALSE, clicked |-> <<>>, cls |-> "__init__", enabled |-> enabled,
     exc |-> NoExc, handle |-> "None", isopen |-> isopen, item |-> NoSuchItem,
     lis |-> lis, pc |-> "idle"]

DropdownPages ==
    {DropdownPage(e, o, l) :
        e \in BOOLEAN, o \in BOOLEAN, l \in [DropdownItems -> BOOLEAN]}

NoDropdown == DropdownPage(TRUE, FALSE, [i \in DropdownItems |-> FALSE])

\* is_enabled: 'disabled' not in the classes of the button.
IsEnabled == dropdown.enabled

\* is_open: 'open' in the classes of the dropdown.
IsOpen == dropdown.isopen

\* item_enabled(item), past _verify_enabled and item_element:
\* 'disabled' not in the classes of the li of the item.
ItemEnabled(item) == ~dropdown.lis[item]

\* item_title(item) of __init__.py looks for './a' under the a that
\* item_element returns; an a holds no a, and browser.element raises.
ItemTitle == "NoSuchElementException"

\* What item_select raises for a disabled item: __init__.py calls
\* item_title for the reason first, dropdowns.py does not.
DisabledItemError(cls) ==
    IF cls = "__init__" THEN ItemTitle ELSE "DropdownItemDisabled"

\* The test calls item_select(item, handle_alert) on a Dropdown of one of
\* the two classes.
CallItemSelect ==
    \E c \in DropdownClasses : \E item \in DropdownItems \cup {NoSuchItem} :
    \E h \in HandleAlert :
        /\ dropdown.pc = "idle"
        /\ dropdown' = [dropdown EXCEPT !.cls = c, !.item = item, !.handle = h,
                                        !.clicked = <<>>, !.exc = NoExc,
                                        !.pc = "open"]
        /\ UNCHANGED <<treeVars, flashVars, accordion, datepicker>>

\* self.open(): _verify_enabled, then a click on the dropdown unless it is
\* open.
ItemSelectOpen ==
    /\ dropdown.pc = "open"
    /\ IF ~IsEnabled
       THEN dropdown' = [dropdown EXCEPT !.exc = "DropdownDisabled",
                                         !.pc = "finally"]
       ELSE dropdown' = [dropdown EXCEPT
                !.clicked = IF IsOpen THEN @ ELSE Append(@, "dropdown"),
                !.isopen = TRUE,
                !.pc = "item_enabled"]
    /\ UNCHANGED <<treeVars, flashVars, accordion, datepicker>>

\* if not self.item_enabled(item): raise ...
ItemSelectItemEnabled ==
    /\ dropdown.pc = "item_enabled"
    /\ IF ~IsEnabled
       THEN dropdown' = [dropdown EXCEPT !.exc = "DropdownDisabled",
                                         !.pc = "finally"]
       ELSE IF dropdown.item \notin DropdownItems
       THEN dropdown' = [dropdown EXCEPT !.exc = "DropdownItemNotFound",
                                         !.pc = "finally"]
       ELSE IF ~ItemEnabled(dropdown.item)
       THEN dropdown' = [dropdown EXCEPT !.exc = DisabledItemError(dropdown.cls),
                                         !.pc = "finally"]
       ELSE dropdown' = [dropdown EXCEPT !.pc = "click"]
    /\ UNCHANGED <<treeVars, flashVars, accordion, datepicker>>

\* The click on the item: the page closes the menu or not and opens an alert
\* or not; with handle_alert given the alert is handled.
ItemSelectClick ==
    /\ dropdown.pc = "click"
    /\ \E o \in BOOLEAN : \E a \in BOOLEAN :
        dropdown' = [dropdown EXCEPT
            !.alert = IF dropdown.handle # "None" THEN FALSE ELSE a,
            !.clicked = Append(@, dropdown.item),
            !.isopen = o,
            !.pc = "finally"]
    /\ UNCHANGED <<treeVars, flashVars, accordion, datepicker>>

\* finally: self.close(ignore_nonpresent=True), which ignores
\* DropdownDisabled; an UnexpectedAlertPresentException is logged. The
\* exception of the try block, if any, goes on.
ItemSelectFinally ==
    /\ dropdown.pc = "finally"
    /\ IF dropdown.alert \/ ~IsEnabled \/ ~IsOpen
       THEN dropdown' = [dropdown EXCEPT !.pc = "done"]
       ELSE dropdown' = [dropdown EXCEPT !.clicked = Append(@, "dropdown"),
                                         !.isopen = FALSE,
                                         !.pc = "done"]
    /\ UNCHANGED <<treeVars, flashVars, accordion, datepicker>>

\* The test has the result and deals with an alert left open.
ItemSelectEnds ==
    /\ dropdown.pc = "done"
    /\ dropdown' = [dropdown EXCEPT !.alert = FALSE, !.clicked = <<>>,
                                    !.exc = NoExc, !.pc = "idle"]
    /\ UNCHANGED <<treeVars, flashVars, accordion, datepicker>>

(* ------------------------------------------------------------- Accordion *)

\* The aria-expanded attribute of the accordion ("absent" when
\* get_attribute returns None) and the classes of its panel-collapse div.
AriaValues == {"absent", "true", "false", "True", " true "}
PanelClasses == SUBSET {"collapse", "in"}

\* attr.lower().strip()
LowerStrip(attr) == IF attr \in {"True", " true "} THEN "true" ELSE attr

AccordionPage(aria, panel) ==
    [aria |-> aria, clicked |-> <<>>, exc |-> NoExc, panel |-> panel,
     pc |-> "idle", polls |-> 0, seen |-> "none", waits |-> 0]

AccordionPages ==
    {AccordionPage(a, p) : a \in AriaValues, p \in PanelClasses}

NoAccordion == AccordionPage("false", {"collapse"})

\* is_opened
IsOpened ==
    IF accordion.aria = "absent"
    THEN "collapse" \in accordion.panel /\ "in" \in accordion.panel
    ELSE LowerStrip(accordion.aria) = "true"

IsClosed == ~IsOpened

\* What open() has just seen of the accordion.
Observed == IF IsOpened THEN "opened" ELSE "closed"

\* The page changes while open() runs: an animation ends, a script of the
\* page runs.
AccordionChange ==
    \E a \in AriaValues : \E p \in PanelClasses :
        /\ accordion.pc \notin {"idle", "done"}
        /\ <<a, p>> # <<accordion.aria, accordion.panel>>
        /\ accordion' = [accordion EXCEPT !.aria = a, !.panel = p]
        /\ UNCHANGED <<treeVars, flashVars, dropdown, datepicker>>

CallAccordionOpen ==
    /\ accordion.pc = "idle"
    /\ accordion' = [accordion EXCEPT !.pc = "start", !.clicked = <<>>,
                         !.exc = NoExc, !.polls = 0, !.seen = "none",
                         !.waits = 0]
    /\ UNCHANGED <<treeVars, flashVars, dropdown, datepicker>>

\* self.click() after the observation seen: the page does with the click
\* what it likes. f is the accordion with the observation recorded.
AccordionClick(f, next) ==
    \E a \in AriaValues : \E p \in PanelClasses :
        accordion' = [f EXCEPT !.aria = a, !.panel = p,
                               !.clicked = Append(@, f.seen),
                               !.polls = 0, !.waits = @ + 1, !.pc = next]

\* if self.is_closed: self.click(), and on to the first wait_for.
AccordionOpenStart ==
    /\ accordion.pc = "start"
    /\ LET f == [accordion EXCEPT !.seen = Observed] IN
       IF IsClosed
       THEN AccordionClick(f, "wait1")
       ELSE accordion' = [f EXCEPT !.pc = "done"]
    /\ UNCHANGED <<treeVars, flashVars, dropdown, datepicker>>

\* One poll of wait_for(lambda: self.is_opened, delay=0.1, num_sec=3): the
\* wait ends, sleeps, or times out with the pc and exception given.
AccordionWait(pc, exc) ==
    LET f == [accordion EXCEPT !.seen = Observed] IN
    IF IsOpened
    THEN accordion' = [f EXCEPT !.pc = "done"]
    ELSE IF accordion.polls < MaxPolls
    THEN accordion' = [f EXCEPT !.polls = @ + 1]
    ELSE accordion' = [f EXCEPT !.pc = pc, !.exc = exc]

\* The first wait; its TimedOutError is caught.
AccordionOpenWait1 ==
    /\ accordion.pc = "wait1"
    /\ AccordionWait("retry", NoExc)
    /\ UNCHANGED <<treeVars, flashVars, dropdown, datepicker>>

\* except TimedOutError: if self.is_closed: self.click(), and on to the
\* second wait_for.
AccordionOpenRetry ==
    /\ accordion.pc = "retry"
    /\ LET f == [accordion EXCEPT !.seen = Observed] IN
       IF IsClosed
       THEN AccordionClick(f, "wait2")
       ELSE accordion' = [f EXCEPT !.pc = "done"]
    /\ UNCHANGED <<treeVars, flashVars, dropdown, datepicker>>

\* Mutant of AccordionOpenWait2: the second timeout is logged only.
AccordionOpenWait2_Logged ==
    /\ accordion.pc = "wait2"
    /\ AccordionWait("done", NoExc)
    /\ UNCHANGED <<treeVars, flashVars, dropdown, datepicker>>

\* The second wait; its TimedOutError becomes
\* Exception('Could not open accordion ...').
AccordionOpenWait2 ==
    /\ accordion.pc = "wait2"
    /\ AccordionWait("done", "Exception")
    /\ UNCHANGED <<treeVars, flashVars, dropdown, datepicker>>

AccordionOpenEnds ==
    /\ accordion.pc = "done"
    /\ accordion' = [accordion EXCEPT !.pc = "idle", !.clicked = <<>>,
                         !.exc = NoExc, !.polls = 0, !.seen = "none",
                         !.waits = 0]
    /\ UNCHANGED <<treeVars, flashVars, dropdown, datepicker>>

(* ------------------------------------------------------------ DatePicker *)

\* The years view: start is the first year of the decade it shows; value,
\* cur (the variable of the for loop), nexts, prevs and picked belong to the
\* call of year_pick.select, first is the decade shown when it was called.
YearsView(start) ==
    [cur |-> 0, first |-> start, nexts |-> 0, pc |-> "idle", picked |-> None,
     prevs |-> 0, start |-> start, value |-> 0]

Years == FirstYear..LastYear
Decades == {y \in Years : y % 10 = 0}

NoDatePicker == YearsView(2020)

\* datepicker_switch.read() is 'start-end'; split at '-' and int() of both.
DatepickerSwitch == <<datepicker.start, datepicker.start + 9>>

\* year_pick._elements: the years shown that are not 'old', 'new' or
\* 'disabled', by their number.
YearElements == datepicker.start..(datepicker.start + 9)

CallYearSelect ==
    \E value \in Years :
        /\ datepicker.pc = "idle"
        /\ datepicker' = [datepicker EXCEPT !.value = value, !.pc = "select",
                              !.first = datepicker.start, !.nexts = 0,
                              !.prevs = 0, !.picked = None, !.cur = 0]
        /\ UNCHANGED <<treeVars, flashVars, dropdown, accordion>>

\* select(value) up to its loops.
YearPickSelect ==
    /\ datepicker.pc = "select"
    /\ LET start_yr == DatepickerSwitch[1]
           end_yr == DatepickerSwitch[2]
       IN IF datepicker.value > end_yr
          THEN datepicker' = [datepicker EXCEPT !.cur = end_yr, !.pc = "next"]
          ELSE IF datepicker.value < start_yr
          THEN datepicker' = [datepicker EXCEPT !.cur = start_yr, !.pc = "prev"]
          ELSE datepicker' = [datepicker EXCEPT !.pc = "pick"]
    /\ UNCHANGED <<treeVars, flashVars, dropdown, accordion>>

\* Mutant of YearPickNext: the loop stops one decade early when the value
\* is not the last year of a decade.
YearPickNext_Early ==
    /\ datepicker.pc = "next"
    /\ IF datepicker.cur + 10 <= datepicker.value
       THEN datepicker' = [datepicker EXCEPT !.cur = @ + 10, !.nexts = @ + 1,
                                             !.start = @ + 10]
       ELSE datepicker' = [datepicker EXCEPT !.pc = "pick"]
    /\ UNCHANGED <<treeVars, flashVars, dropdown, accordion>>

\* for _ in range(end_yr, value, 10): self.next_button.click()
YearPickNext ==
    /\ datepicker.pc = "next"
    /\ IF datepicker.cur < datepicker.value
       THEN datepicker' = [datepicker EXCEPT !.cur = @ + 10, !.nexts = @ + 1,
                                             !.start = @ + 10]
       ELSE datepicker' = [datepicker EXCEPT !.pc = "pick"]
    /\ UNCHANGED <<treeVars, flashVars, dropdown, accordion>>

\* for _ in range(start_yr, value, -10): self.prev_button.click()
YearPickPrev ==
    /\ datepicker.pc = "prev"
    /\ IF datepicker.cur > datepicker.value
       THEN datepicker' = [datepicker EXCEPT !.cur = @ - 10, !.prevs = @ + 1,
                                             !.start = @ - 10]
       ELSE datepicker' = [datepicker EXCEPT !.pc = "pick"]
    /\ UNCHANGED <<treeVars, flashVars, dropdown, accordion>>

\* self._pick(value): the year is clicked if it is among the elements.
YearPick ==
    /\ datepicker.pc = "pick"
    /\ datepicker' = [datepicker EXCEPT
            !.picked = IF datepicker.value \in YearElements
                       THEN datepicker.value ELSE None,
            !.pc = "done"]
    /\ UNCHANGED <<treeVars, flashVars, dropdown, accordion>>

YearSelectEnds ==
    /\ datepicker.pc = "done"
    /\ datepicker' = [datepicker EXCEPT !.pc = "idle"]
    /\ UNCHANGED <<treeVars, flashVars, dropdown, accordion>>

(* -------------------------------------------------------- specifications *)

\* The pages of the other widgets while the tree or the notifications are
\* exercised.
InitWidgets ==
    /\ dropdown = NoDropdown
    /\ accordion = NoAccordion
    /\ datepicker = NoDatePicker

\* The tree and the notifications while another widget is exercised.
InitRest ==
    /\ tree = TreeSingle
    /\ state = [n \in Nodes |-> IF tree[n].expandable THEN "collapsed" ELSE "leaf"]
    /\ rendered = {n \in Nodes : tree[n].parent = None}
    /\ checked = {}
    /\ stack = <<>>
    /\ ret = NoRet
    /\ call = NoCall
    /\ pre = state
    /\ sub = NoRet
    /\ clicks = <<>>
    /\ validated = <<>>
    /\ last = NoLast
    /\ msgs = <<>>
    /\ flash = NoFlash
    /\ flog = NoLog

\* Dropdown.item_select on every page of the dropdown.
InitDropdown ==
    /\ InitRest
    /\ dropdown \in DropdownPages
    /\ accordion = NoAccordion
    /\ datepicker = NoDatePicker

NextDropdown ==
    \/ CallItemSelect
    \/ ItemSelectOpen
    \/ ItemSelectItemEnabled
    \/ ItemSelectClick
    \/ ItemSelectFinally
    \/ ItemSelectEnds

SpecDropdown == InitDropdown /\ [][NextDropdown]_vars

\* Accordion.open on every page of the accordion.
InitAccordion ==
    /\ InitRest
    /\ dropdown = NoDropdown
    /\ accordion \in AccordionPages
    /\ datepicker = NoDatePicker

NextAccordion ==
    \/ CallAccordionOpen
    \/ AccordionOpenStart
    \/ AccordionOpenWait1
    \/ AccordionOpenRetry
    \/ AccordionOpenWait2
    \/ AccordionOpenEnds
    \/ AccordionChange

SpecAccordion == InitAccordion /\ [][NextAccordion]_vars

\* DatePicker.year_pick.select with the years view on any decade.
InitDatePicker ==
    /\ InitRest
    /\ dropdown = NoDropdown
    /\ accordion = NoAccordion
    /\ datepicker \in {YearsView(d) : d \in Decades}

NextDatePicker ==
    \/ CallYearSelect
    \/ YearPickSelect
    \/ YearPickNext
    \/ YearPickPrev
    \/ YearPick
    \/ YearSelectEnds

SpecDatePicker == InitDatePicker /\ [][NextDatePicker]_vars


\* The page as first rendered: every expandable node collapsed or expanded,
\* and in the list exactly the items whose ancestors are all expanded.
InitState(t) ==
    {st \in [1..Len(t) -> {"collapsed", "expanded", "leaf"}] :
        \A n \in 1..Len(t) : (st[n] = "leaf") <=> ~t[n].expandable}

Init ==
    /\ tree \in Trees
    /\ state \in InitState(tree)
    /\ rendered = {n \in Nodes :
                    \A a \in Nodes : IsAncestor(a, n) => state[a] = "expanded"}
    /\ stack = <<>>
    /\ ret = NoRet
    /\ call = NoCall
    /\ pre = state
    /\ sub = NoRet
    /\ clicks = <<>>
    /\ validated = <<>>
    /\ checked = {}
    /\ last = NoLast
    /\ msgs = <<>>
    /\ flash = NoFlash
    /\ flog = NoLog
    /\ InitWidgets

\* expand_node and collapse_node, called by the test.
NextNode ==
    \/ CallExpandNode
    \/ CallCollapseNode
    \/ ExpandNodeStart
    \/ ExpandNodeWaitLoading
    \/ ExpandNodeWaitExpanded
    \/ CollapseNodeStart
    \/ CollapseNodeWaitCollapsed
    \/ BrowserLoad
    \/ CallEnds

SpecNode == Init /\ [][NextNode]_vars

\* The steps of the thread that runs expand_node or collapse_node: between
\* two of them it sleeps for a fixed time at most, so that it takes its next
\* step whenever it has one. The page has no such obligation.
NodeStep ==
    \/ ExpandNodeStart
    \/ ExpandNodeWaitLoading
    \/ ExpandNodeWaitExpanded
    \/ CollapseNodeStart
    \/ CollapseNodeWaitCollapsed

NextNodeLive ==
    \/ NextNode
    \/ BrowserChange

SpecNodeLive == Init /\ [][NextNodeLive]_vars /\ WF_vars(NodeStep)

\* read_contents, called by the test.
NextRead ==
    \/ CallReadContents
    \/ ReadContentsStart
    \/ ReadContentsRetExpand
    \/ ReadContentsChildren
    \/ ReadContentsRetChild
    \/ ReadContentsRetCollapse
    \/ ExpandNodeStart
    \/ ExpandNodeWaitLoading
    \/ ExpandNodeWaitExpanded
    \/ CollapseNodeStart
    \/ CollapseNodeWaitCollapsed
    \/ BrowserLoad
    \/ CallEnds

SpecRead == Init /\ [][NextRead]_vars

\* read_contents on the page with two expandable siblings.
InitPair ==
    /\ tree = TreePair
    /\ state \in InitState(tree)
    /\ rendered = {n \in Nodes :
                    \A a \in Nodes : IsAncestor(a, n) => state[a] = "expanded"}
    /\ checked = {}
    /\ stack = <<>>
    /\ ret = NoRet
    /\ call = NoCall
    /\ pre = state
    /\ sub = NoRet
    /\ clicks = <<>>
    /\ validated = <<>>
    /\ last = NoLast
    /\ msgs = <<>>
    /\ flash = NoFlash
    /\ flog = NoLog
    /\ InitWidgets

SpecReadPair == InitPair /\ [][NextRead]_vars

\* expand_path, called by the test.
Next ==
    \/ CallExpandPath
    \/ ExpandPathStart
    \/ ExpandPathLoop
    \/ ExpandPathRetExpand
    \/ ExpandNodeStart
    \/ ExpandNodeWaitLoading
    \/ ExpandNodeWaitExpanded
    \/ BrowserLoad
    \/ CallEnds

Spec == Init /\ [][Next]_vars

\* click_path and has_path, called by the test.
NextCallers ==
    \/ CallClickPath
    \/ CallHasPath
    \/ ExpandPathStart
    \/ ExpandPathLoop
    \/ ExpandPathRetExpand
    \/ ClickPathRet
    \/ HasPathRet
    \/ ExpandNodeStart
    \/ ExpandNodeWaitLoading
    \/ ExpandNodeWaitExpanded
    \/ BrowserLoad
    \/ CallEnds

SpecCallers == Init /\ [][NextCallers]_vars

\* The checkable page as first rendered: any of its check icons checked.
InitCheck ==
    /\ tree = TreeCheckable
    /\ state \in InitState(tree)
    /\ rendered = {n \in Nodes :
                    \A a \in Nodes : IsAncestor(a, n) => state[a] = "expanded"}
    /\ checked \in SUBSET {n \in Nodes : tree[n].checkable}
    /\ stack = <<>>
    /\ ret = NoRet
    /\ call = NoCall
    /\ pre = state
    /\ sub = NoRet
    /\ clicks = <<>>
    /\ validated = <<>>
    /\ last = NoLast
    /\ msgs = <<>>
    /\ flash = NoFlash
    /\ flog = NoLog
    /\ InitWidgets

\* check_node, uncheck_node and node_checked, called by the test.
NextCheck ==
    \/ CallCheckNode
    \/ CallUncheckNode
    \/ CallNodeChecked
    \/ CheckUncheckNodeRet
    \/ NodeCheckedRet
    \/ ExpandPathStart
    \/ ExpandPathLoop
    \/ ExpandPathRetExpand
    \/ ExpandNodeStart
    \/ ExpandNodeWaitLoading
    \/ ExpandNodeWaitExpanded
    \/ BrowserLoad
    \/ CallEnds

SpecCheck == InitCheck /\ [][NextCheck]_vars

\* A page of notifications as first rendered, beside a tree left alone.
InitFlash ==
    /\ tree = TreeSingle
    /\ state = [n \in Nodes |-> IF tree[n].expandable THEN "collapsed" ELSE "leaf"]
    /\ rendered = {n \in Nodes : tree[n].parent = None}
    /\ checked = {}
    /\ stack = <<>>
    /\ ret = NoRet
    /\ call = NoCall
    /\ pre = state
    /\ sub = NoRet
    /\ clicks = <<>>
    /\ validated = <<>>
    /\ last = NoLast
    /\ msgs \in AlertPages
    /\ flash = NoFlash
    /\ flog = NoLog
    /\ InitWidgets

InitIter ==
    /\ tree = TreeSingle
    /\ state = [n \in Nodes |-> IF tree[n].expandable THEN "collapsed" ELSE "leaf"]
    /\ rendered = {n \in Nodes : tree[n].parent = None}
    /\ checked = {}
    /\ stack = <<>>
    /\ ret = NoRet
    /\ call = NoCall
    /\ pre = state
    /\ sub = NoRet
    /\ clicks = <<>>
    /\ validated = <<>>
    /\ last = NoLast
    /\ msgs \in IterPages
    /\ flash = NoFlash
    /\ flog = NoLog
    /\ InitWidgets

\* read, dismiss and assert_no_error, called by the test.
NextFlash ==
    \/ CallRead
    \/ CallDismiss
    \/ CallAssertNoError
    \/ MessagesStart
    \/ MessagesNext
    \/ ReadYield
    \/ DismissYield
    \/ FlashEnds

SpecFlash == InitFlash /\ [][NextFlash]_vars

\* messages(), iterated by a consumer that dismisses views it was given.
NextIter ==
    \/ CallMessages
    \/ MessagesStart
    \/ MessagesNext
    \/ ConsumerDismiss
    \/ ConsumerNext
    \/ FlashEnds

SpecIter == InitIter /\ [][NextIter]_vars

\* read, dismiss and assert_no_error on a page that re-renders at any time.
NextRetry ==
    \/ CallRead
    \/ CallDismiss
    \/ CallAssertNoError
    \/ MessagesStart
    \/ MessagesNext
    \/ ReadYield
    \/ DismissYield
    \/ PageStale
    \/ FlashEnds

SpecRetry == InitIter /\ [][NextRetry]_vars

(* ---------------------------------------------------------------- claims *)

\* The node of the page with the given data-nodeid, rendered or not.
NodeOf(nodeid) == CHOOSE n \in Nodes : tree[n].nodeid = nodeid

Roots == {n \in Nodes : tree[n].parent = None}

Min(S) == CHOOSE x \in S : \A y \in S : x <= y

\* What the documentation says a step accepts, stated without the code's
\* matcher: a pattern (anchors at its ends only) matches from the start of
\* the text, a string equals it, and a given image equals the item's.
MatchesFromStart(pat, text) ==
    LET body == SelectSeq(pat, LAMBDA a : a \notin {"^", "$"})
    IN /\ Len(body) <= Len(text)
       /\ \A j \in 1..Len(body) : body[j] = "." \/ body[j] = text[j]
       /\ (pat # <<>> /\ pat[Len(pat)] = "$") => Len(body) = Len(text)

Satisfies(n, step) ==
    /\ IF step.kind = "re"
       THEN MatchesFromStart(step.val, tree[n].text)
       ELSE step.val = tree[n].text
    /\ (step.tuple /\ step.image # NoImage) => tree[n].image = step.image

\* The node a path names: one level per step, the first direct child in
\* document order that satisfies the step; None when a step has no such child.
RECURSIVE Descend(_, _)
Descend(node, path) ==
    IF path = <<>> THEN node
    ELSE LET hits == {c \in (IF node = None THEN Roots ELSE Kids(node)) :
                        Satisfies(c, Head(path))}
         IN IF hits = {} THEN None ELSE Descend(Min(hits), Tail(path))

Resolve(path) ==
    IF Cardinality(Roots) = 1
    THEN IF Satisfies(Min(Roots), path[1])
         THEN Descend(Min(Roots), Tail(path)) ELSE None
    ELSE Descend(None, path)

Ended(op) == Done /\ call.op = op

NodeClicks == SelectSeq(clicks, LAMBDA c : c.kind = "node")

\* C1: when expand_path succeeds it returns the node reached by descending
\* one level per step, taking at each level the first direct child (root item
\* for the first step of a multi-root tree) in document order that satisfies
\* the step.
C1_ReturnsFirstMatchingChild ==
    (Ended("expand_path") /\ ret.kind = "value") => ret.val = Resolve(call.path)

\* C2: on a tree with one root item expand_path succeeds only if the root
\* satisfies the first step; on a mismatch it raises CandidateNotFound with
\* the root mismatch as its cause, having clicked nothing and validated no
\* node but the root.
C2_SingleRootValidated ==
    (Ended("expand_path") /\ Cardinality(Roots) = 1) =>
        LET root == Min(Roots) IN
        /\ ret.kind = "value" => Satisfies(root, call.path[1])
        /\ ~Satisfies(root, call.path[1]) =>
            /\ ret = Exc("CandidateNotFound", "Root node did not match")
            /\ clicks = <<>>
            /\ Len(validated) = 1
            /\ validated[1].node = root

C2_Witness ==
    /\ Ended("expand_path")
    /\ tree = TreeSingle
    /\ Len(call.path) > 1
    /\ ret = Exc("CandidateNotFound", "Root node did not match")

\* C3: an expand_path that fails because no candidate matches a step fails
\* with CandidateNotFound: it raises no error other than CandidateNotFound and
\* the timeout of an expansion wait.
C3_OnlyCandidateNotFound ==
    (Ended("expand_path") /\ ret.kind = "raise" /\ ret.val # "TimedOutError")
        => ret.val = "CandidateNotFound"

\* C4: has_path returns True when expand_path returned a node, False when it
\* raised CandidateNotFound, and raises what expand_path raised otherwise.
C4_HasPathConvertsOnlyCandidateNotFound ==
    Ended("has_path") =>
        /\ sub.kind # "none"
        /\ sub.kind = "value" => ret = Value(TRUE)
        /\ (sub.kind = "raise" /\ sub.val = "CandidateNotFound") => ret = Value(FALSE)
        /\ (sub.kind = "raise" /\ sub.val # "CandidateNotFound") => ret = sub

C4_Witness ==
    /\ Ended("has_path")
    /\ sub.kind = "raise"
    /\ sub.val = "TimedOutError"
    /\ ret = sub

\* C5: click_path clicks one node, the leaf expand_path returned, after
\* expand_path has returned it; when expand_path raises no node is clicked
\* and the error is raised to the caller.
C5_ClickPathClicksLeafOnce ==
    call.op = "click_path" =>
        /\ Len(NodeClicks) <= 1
        /\ NodeClicks # <<>> =>
            /\ Done
            /\ sub.kind = "value"
            /\ NodeClicks[1].node = sub.val
            /\ clicks[Len(clicks)] = NodeClicks[1]
        /\ Done =>
            /\ sub.kind # "none"
            /\ sub.kind = "value" => (Len(NodeClicks) = 1 /\ ret = sub)
            /\ sub.kind = "raise" => (NodeClicks = <<>> /\ ret = sub)

C5_Witness ==
    /\ Ended("click_path")
    /\ Len(clicks) = 3
    /\ Len(NodeClicks) = 1
    /\ tree[NodeClicks[1].node].indent = 2

\* C6: validate_node accepts a node for a string step iff the node's text
\* equals the string, for a pattern step iff the pattern matches from the
\* start of the text, and with an image given only if the node's image equals
\* it as well.
C6_ValidateNode ==
    \A k \in 1..Len(validated) :
        LET v == validated[k]
            text == tree[v.node].text
        IN v.res <=>
            /\ IF v.step.kind = "re"
               THEN MatchesFromStart(v.step.val, text)
               ELSE v.step.val = text
            /\ v.step.image # NoImage => tree[v.node].image = v.step.image

\* The pattern ^C has accepted the text "C1", which the string "C" does not
\* equal.
C6_Witness ==
    \E k \in 1..Len(validated) :
        /\ validated[k].step.kind = "re"
        /\ validated[k].step.val = <<"^", "C">>
        /\ tree[validated[k].node].text = <<"C", "1">>
        /\ validated[k].res

\* The texts the string steps filter by.
StepTexts == {s.val : s \in {t \in Steps : t.kind = "str"}}

\* C7: the children enumerated for a node never include a grandchild or a
\* deeper descendant of it; for the root "1" of the tree "1", "1.1",
\* "1.1.1", "1.2" they are exactly its direct children in the list.
C7_NoGrandchildren ==
    /\ \A n \in rendered :
          \A c \in Elems(ChildItems(n)) \cup
                   UNION {Elems(ChildItemsWithText(n, t)) : t \in StepTexts} :
              IsAncestor(n, c) => tree[c].parent = n
    /\ tree = TreeSingle => Elems(ChildItems(1)) = Kids(1) \cap rendered

\* expand_path has scanned the children of "1" with "1.1.1" in the list.
C7_Witness ==
    /\ tree = TreeSingle
    /\ 3 \in rendered
    /\ call.op = "expand_path"
    /\ \E k \in 1..Len(validated) : validated[k].node \in Kids(1)

\* C8: when expand_node returns for an expandable node (no timeout), it
\* returns True and the node is expanded.
C8_ExpandedOnReturn ==
    (Ended("expand_node") /\ ret.kind = "value" /\ IsExpandable(NodeOf(call.nodeid)))
        => (ret.val = TRUE /\ IsExpanded(NodeOf(call.nodeid)))

C8_Witness ==
    /\ Ended("expand_node")
    /\ ret = Value(TRUE)
    /\ clicks # <<>>
    /\ pre[NodeOf(call.nodeid)] = "collapsed"
    /\ IsExpanded(NodeOf(call.nodeid))

\* C9: expand_node and collapse_node click the expand icon at most once, of
\* their own node, and only when it is expandable and not in the target
\* state; on a non-expandable node in the list they return False without a
\* click, and no node that was not loading changes; on a node in the list
\* that is in the target state already they return True without a click and
\* the node stays in it. (A node that is not in the list is not found.)
C9_ClickOnlyWhenNeeded ==
    call.op \in {"expand_node", "collapse_node"} =>
        LET node == NodeOf(call.nodeid)
            target == IF call.op = "expand_node" THEN "expanded" ELSE "collapsed"
            found == ret # Exc("CandidateNotFound", "nodeid")
        IN /\ Len(clicks) <= 1
           /\ \A k \in 1..Len(clicks) :
                /\ clicks[k].kind = "arrow"
                /\ clicks[k].node = node
                /\ IsExpandable(node)
                /\ clicks[k].was # target
           /\ (Done /\ found /\ ~IsExpandable(node)) =>
                /\ ret = Value(FALSE)
                /\ clicks = <<>>
                /\ \A n \in Nodes : pre[n] # "loading" => state[n] = pre[n]
           /\ (Done /\ found /\ pre[node] = target) =>
                /\ ret = Value(TRUE)
                /\ clicks = <<>>
                /\ state[node] = target

\* expand_node has returned True for a node that was expanded already.
C9_Witness ==
    /\ Ended("expand_node")
    /\ pre[NodeOf(call.nodeid)] = "expanded"
    /\ ret = Value(TRUE)
    /\ clicks = <<>>
    /\ IsExpanded(NodeOf(call.nodeid))

\* The start node of a read_contents call and the subtree below it.
ReadStart ==
    IF call.nodeid = NoNodeid THEN Min(Roots) ELSE NodeOf(call.nodeid)

ReadSubtree == {ReadStart} \cup Descendants(ReadStart)

ReadReturned ==
    Ended("read_contents") /\ call.collapse /\ ret.kind = "value"

\* C10 as claimed: after read_contents with collapse_after_read=True the
\* expansion state of every node equals its state before the call (nodes
\* the page was loading when the call began are left aside: the page
\* finishes them on its own).
C10_StateRestored ==
    ReadReturned => \A n \in Nodes : pre[n] # "loading" => state[n] = pre[n]

\* C10 as amended: after read_contents with collapse_after_read=True has
\* returned, every expandable node of the subtree it read is collapsed, also
\* the ones that were expanded before the call, and every node that was
\* collapsed before the call is collapsed.
C10_SubtreeCollapsed ==
    ReadReturned =>
        /\ \A n \in ReadSubtree : IsExpandable(n) => state[n] = "collapsed"
        /\ \A n \in Nodes : pre[n] = "collapsed" => state[n] = "collapsed"

\* A read that expanded and re-collapsed one node and collapsed another that
\* was expanded before the call.
C10_Witness ==
    /\ ReadReturned
    /\ \E n, m \in ReadSubtree :
        /\ pre[n] = "expanded" /\ state[n] = "collapsed"
        /\ pre[m] = "collapsed" /\ state[m] = "collapsed"
        /\ Cardinality({k \in 1..Len(clicks) : clicks[k].node = m}) = 2

\* The structure of the subtree below n: a node without children is its text
\* (or its image and text), a node with children that and the list of the
\* structures of its direct children in document order.
RECURSIVE Mirror(_, _)
Mirror(n, images) ==
    LET own == IF images THEN PyTuple(tree[n].image, tree[n].text)
               ELSE PyStr(tree[n].text)
        kids == DocOrder(Kids(n))
    IN IF kids = <<>> THEN own
       ELSE PyList(own, [k \in 1..Len(kids) |-> Mirror(kids[k], images)])

\* C11: what read_contents returns mirrors the subtree below the start node:
\* the text (the image and text with include_images) of a node without
\* children, and for a node with children the two-element list of that and
\* of the representations of its direct children in document order; without
\* a nodeid on a single-root tree the start node is the root.
C11_MirrorsSubtree ==
    (Ended("read_contents") /\ ret.kind = "value")
        => ret.val = Mirror(ReadStart, call.images)

CheckClicks == SelectSeq(clicks, LAMBDA c : c.kind = "check")

\* Whether the method called asks for a checked icon, and the state of the
\* icon ("checked", "unchecked") it does not ask for.
Requested == call.op = "check_node"
NotRequested == IF Requested THEN "unchecked" ELSE "checked"

\* C12: check_node and uncheck_node click the checkbox of the leaf at most
\* once and only when its state differs from the one asked for; they return
\* True exactly when they clicked and False otherwise, and the leaf is then
\* in the state asked for. So an uncheck_node that follows a check_node that
\* returned False on the same path returns True, and a node_checked that
\* follows an uncheck_node on the same path returns False.
C12_ToggleOnlyOnDifference ==
    /\ call.op \in {"check_node", "uncheck_node"} =>
        /\ Len(CheckClicks) <= 1
        /\ \A k \in 1..Len(CheckClicks) :
            /\ CheckClicks[k].was = NotRequested
            /\ Done /\ sub.kind = "value"
            /\ CheckClicks[k].node = sub.val
        /\ (Done /\ ret.kind = "value") =>
            /\ sub.kind = "value"
            /\ ret.val = (CheckClicks # <<>>)
            /\ (sub.val \in checked) = Requested
    /\ (Ended("uncheck_node") /\ ret.kind = "value"
          /\ last = [kind |-> "value", op |-> "check_node", path |-> call.path,
                     val |-> FALSE])
        => ret.val = TRUE
    /\ (Ended("node_checked") /\ ret.kind = "value"
          /\ last.op = "uncheck_node" /\ last.kind = "value"
          /\ last.path = call.path)
        => ret.val = FALSE

\* node_checked has returned False after an uncheck_node on the same path
\* that returned True: the leaf was checked before the two calls.
C12_Witness ==
    /\ Ended("node_checked")
    /\ ret = Value(FALSE)
    /\ sub.kind = "value"
    /\ IsCheckable(sub.val)
    /\ last = [kind |-> "value", op |-> "uncheck_node", path |-> call.path,
               val |-> TRUE]

\* The leaf expand_path returned has no check icon.
NonCheckableLeaf ==
    Done /\ call.op \in CheckOps /\ sub.kind = "value" /\ ~IsCheckable(sub.val)

\* C13 as claimed: each of check_node, uncheck_node and node_checked fails
\* with a TypeError when the leaf expand_path returned has no check icon.
C13_TypeErrorForAll ==
    NonCheckableLeaf => (ret.kind = "raise" /\ ret.val = "TypeError")

\* C13 as amended: the three methods do nothing to a checkbox before
\* expand_path has returned the leaf, and raise what expand_path raises; for
\* a leaf without a check icon check_node and uncheck_node raise TypeError
\* and node_checked returns False, and none of them clicks a checkbox or
\* returns True.
C13_NonCheckableLeaf ==
    call.op \in CheckOps =>
        /\ CheckClicks # <<>> => (sub.kind = "value" /\ IsCheckable(sub.val))
        /\ Done => sub.kind # "none"
        /\ (Done /\ sub.kind = "raise") => (ret = sub /\ CheckClicks = <<>>)
        /\ NonCheckableLeaf =>
            /\ CheckClicks = <<>>
            /\ ret # Value(TRUE)
            /\ IF call.op = "node_checked"
               THEN ret = Value(FALSE)
               ELSE ret = Exc("TypeError", "is not checkable")

\* check_node has raised TypeError for the grandchild, which has no check
\* icon, after expanding the path to it.
C13_Witness ==
    /\ NonCheckableLeaf
    /\ call.op = "check_node"
    /\ clicks # <<>>
    /\ tree[sub.val].indent = 2
    /\ ret = Exc("TypeError", "is not checkable")

\* C14: of every item of the list, whatever its icon shows (collapsed,
\* loading, expanded, or none), exactly one of is_expanded and is_collapsed
\* holds: is_expanded(n) == not is_collapsed(n).
C14_ExpandedXorCollapsed ==
    \A n \in rendered :
        /\ IsExpanded(n) = ~IsCollapsed(n)
        /\ IsExpanded(n) \/ IsCollapsed(n)
        /\ ~(IsExpanded(n) /\ IsCollapsed(n))

\* expand_node waits for a node the page is loading: the node counts as
\* collapsed, not as expanded.
C14_Witness ==
    /\ Running("expand_node", "wait_loading")
    /\ \E n \in rendered :
        /\ tree[n].nodeid = Top.nodeid
        /\ IsLoading(n)
        /\ IsCollapsed(n)
        /\ ~IsExpanded(n)

\* C15 as claimed: a wait of expand_node that times out is not surfaced to
\* the caller as an error.
C15_TimeoutIsSuccess ==
    (Ended("expand_node") /\ ret.kind = "raise") => ret.val # "TimedOutError"

\* C15 as amended: expand_node on an expandable node of the list either
\* returns True with the node expanded, or, after its click, raises the
\* TimedOutError of the wait that ran out of time; it never returns
\* success for a wait that timed out.
C15_TimeoutSurfaced ==
    (Ended("expand_node") /\ IsExpandable(NodeOf(call.nodeid))
        /\ ret # Exc("CandidateNotFound", "nodeid")) =>
        \/ ret = Value(TRUE) /\ IsExpanded(NodeOf(call.nodeid))
        \/ ret = Exc("TimedOutError", "") /\ Len(clicks) = 1

\* The wait for the node to be expanded has timed out on a node the click
\* left collapsed.
C15_Witness ==
    /\ Ended("expand_node")
    /\ ret = Exc("TimedOutError", "")
    /\ Len(clicks) = 1
    /\ state[NodeOf(call.nodeid)] = "collapsed"

\* The number of steps matched with the first k validations.
Accepted(k) == Cardinality({j \in 1..k : validated[j].res})

\* C16: once expand_path has matched a node that is not expandable, it
\* enumerates and validates no further node and clicks nothing on that node;
\* if the path has more steps it fails with CandidateNotFound (could not
\* expand), and if the node was matched by the last step it is returned.
C16_NoDescentBelowLeaf ==
    call.op = "expand_path" =>
        \A k \in 1..Len(validated) :
            (validated[k].res /\ ~IsExpandable(validated[k].node)) =>
                /\ k = Len(validated)
                /\ \A c \in 1..Len(clicks) : clicks[c].node # validated[k].node
                /\ Done =>
                    IF Accepted(k) < Len(call.path)
                    THEN ret = Exc("CandidateNotFound", "Could not expand")
                    ELSE ret = Value(validated[k].node)

\* The path goes on below "1.2", which has no expand icon: the root was
\* expanded, "1.2" matched, and the call failed.
C16_Witness ==
    /\ Ended("expand_path")
    /\ tree = TreeSingle
    /\ clicks # <<>>
    /\ validated # <<>>
    /\ validated[Len(validated)].res
    /\ validated[Len(validated)].node = 4
    /\ Len(call.path) = 3
    /\ ret = Exc("CandidateNotFound", "Could not expand")

\* The ids of the notifications of a page, in display order.
Ids(page) == [k \in 1..Len(page) |-> page[k].id]

\* The iteration over all notifications has come to its end.
IterationEnded ==
    /\ flash.op = "messages"
    /\ flash.pc = "done"
    /\ flash.res.kind = "value"

\* C17: when the consumer of messages() has dismissed, between two views, only
\* notifications it had been given already, messages() looks at every
\* notification that was on the page when the iteration began, once, in
\* display order: at any time the notifications looked at are the first ones
\* of that page, and at the end all of them.
C17_EveryMessageVisitedOnce ==
    (flash.op = "messages" /\ ~flog.wild) =>
        /\ Len(flog.seen) <= Len(flog.start)
        /\ flog.seen = SubSeq(Ids(flog.start), 1, Len(flog.seen))
        /\ IterationEnded => flog.seen = Ids(flog.start)

\* An iteration over three notifications has ended after the consumer
\* dismissed the second one it was given and then the first.
C17_Witness ==
    /\ IterationEnded
    /\ ~flog.wild
    /\ Len(flog.start) = 3
    /\ flog.gone = <<2, 1>>
    /\ flog.seen = <<1, 2, 3>>
    /\ Len(msgs) = 1

FlashEnded(op) == flash.op = op /\ flash.pc = "done"

\* C18: dismiss() returns having dismissed every notification that was on
\* the page when it was called, each one once and no other, and the page is
\* then empty; read() on an empty page returns the empty list.
C18_DismissEmptiesPage ==
    /\ FlashEnded("dismiss") =>
        /\ flash.res = Value(None)
        /\ msgs = <<>>
        /\ Len(flog.gone) = Len(flog.start)
        /\ Elems(flog.gone) = Elems(Ids(flog.start))
    /\ (FlashEnded("read") /\ flog.start = <<>> /\ flash.filter.index = NoIndex)
        => flash.res = Value(<<>>)

\* dismiss() has ended on a page that had as many notifications as a page
\* may have.
C18_Witness ==
    /\ FlashEnded("dismiss")
    /\ Len(flog.start) = MaxMsgs
    /\ Len(flog.gone) = MaxMsgs
    /\ msgs = <<>>

\* The notifications of the page the call started on that assert_no_error
\* is to report: of a type other than success, info and warning, with a text
\* that is not to be ignored.
Errors ==
    {k \in 1..Len(flog.start) :
        /\ flog.start[k].alert \notin {"alert-success", "alert-info", "alert-warning"}
        /\ flog.start[k].text \notin flash.ignore}

\* C19: assert_no_error(ignore_messages) raises AssertionError exactly when
\* a notification of a type other than success, info and warning has a text
\* that is not in ignore_messages, and returns otherwise; it dismisses
\* nothing.
C19_AssertNoError ==
    flash.op = "assert_no_error" =>
        /\ msgs = flog.start
        /\ flog.gone = <<>>
        /\ flash.pc = "done" =>
            IF Errors # {}
            THEN flash.res = Exc("AssertionError", "")
            ELSE flash.res = Value(None)

\* assert_no_error has returned on a page with an error notification whose
\* text it was told to ignore.
C19_Witness ==
    /\ FlashEnded("assert_no_error")
    /\ flash.res = Value(None)
    /\ flash.ignore = {<<"a", "b">>}
    /\ \E k \in 1..Len(msgs) :
        msgs[k].alert = "alert-danger" /\ msgs[k].text = <<"a", "b">>
    /\ \E k \in 1..Len(msgs) : msgs[k].alert = "alert-success"

\* Whether a text matches the text of a filter: a string by equality, or as
\* a part of the text with partial, a pattern from the start of the text.
TextMatches(f, text) ==
    IF f.text.kind = "re" THEN MatchesFromStart(f.text.val, text)
    ELSE IF f.partial
    THEN \E a \in 0..Len(text) : \E b \in a..Len(text) :
            SubSeq(text, a + 1, b) = f.text.val
    ELSE f.text.val = text

\* The texts, in display order, of the notifications of a page that match
\* (keep = TRUE) or do not match (keep = FALSE) the text of a filter.
TextsOf(page, f, keep) ==
    LET hits == SelectSeq(page, LAMBDA m : TextMatches(f, m.text) = keep)
    IN [k \in 1..Len(hits) |-> hits[k].text]

\* C20: read(text=t, inverse=True) without a type filter returns, in display
\* order, the texts of the notifications whose text does not match t, and
\* read(text=t) the texts of those whose text matches: the one is the
\* complement of the other.
C20_InverseIsComplement ==
    (FlashEnded("read") /\ flash.filter.text.kind # "none"
        /\ flash.filter.t = {} /\ flash.filter.index = NoIndex) =>
        flash.res = Value(TextsOf(flog.start, flash.filter, ~flash.filter.inverse))

\* An inverse read with a partial text has returned some of the texts of a
\* page and left out others.
C20_Witness ==
    /\ FlashEnded("read")
    /\ flash.filter = MsgFilter(StrText(<<"b">>), {}, TRUE, TRUE, NoIndex)
    /\ Len(flog.start) = 3
    /\ flash.res.kind = "value"
    /\ Len(flash.res.val) = 2
    /\ flash.res.val[1] = <<"a">>

\* C21: a method under retry_element is entered at most RetryAttempts
\* times, with one pause between two consecutive attempts and none after the
\* last; it ends with the first attempt that returns (or raises an error
\* retry_element does not catch), and an error retry_element catches leaves
\* it only from the last of the RetryAttempts attempts.
C21_BoundedRetry ==
    flash.op \in Retried =>
        /\ flog.tries <= RetryAttempts
        /\ flash.pc \in {"run", "yield", "done"} => flash.pauses = flog.tries - 1
        /\ flash.pc = "start" => flash.pauses = flog.tries
        /\ flash.pc = "done" =>
            /\ flash.res.kind # "none"
            /\ (flash.res.kind = "raise" /\ flash.res.val \in Caught)
                => flog.tries = RetryAttempts

\* read() has returned the texts of three notifications from its last
\* attempt, after nine attempts that met a stale element.
C21_Witness ==
    /\ FlashEnded("read")
    /\ flash.res.kind = "value"
    /\ Len(flash.res.val) = 3
    /\ flog.tries = RetryAttempts
    /\ flash.pauses = RetryAttempts - 1

\* C22: after read_contents without collapse_after_read has returned, every
\* expandable node of the subtree below the start node is expanded.
C22_EagerTraversal ==
    (Ended("read_contents") /\ ~call.collapse /\ ret.kind = "value") =>
        \A n \in ReadSubtree : IsExpandable(n) => state[n] = "expanded"

\* A read from the root of the single-root page that found the root and its
\* child "1.1" collapsed and clicked both.
C22_Witness ==
    /\ Ended("read_contents")
    /\ ~call.collapse
    /\ ret.kind = "value"
    /\ tree = TreeSingle
    /\ ReadStart = 1
    /\ pre[1] = "collapsed" /\ pre[2] = "collapsed"
    /\ state[1] = "expanded" /\ state[2] = "expanded"
    /\ Len(clicks) = 2

\* The node a frame of read_contents or collapse_node is about.
FrameNode(q) == NodeOf(stack[q].nodeid)

\* C23: with collapse_after_read, whenever collapse_node is called for a
\* node, every expandable descendant of the node is collapsed already; and
\* whenever a child of a node being read is read in its turn, every
\* expandable child of that node before it in document order is collapsed
\* already.
C23_PostOrderCollapse ==
    (call.op = "read_contents" /\ call.collapse) =>
        \A q \in 1..Len(stack) :
            /\ (stack[q].fn = "collapse_node" /\ stack[q].nodeid \in NodeIds) =>
                \A d \in Descendants(FrameNode(q)) :
                    IsExpandable(d) => state[d] = "collapsed"
            /\ (q > 1 /\ stack[q].fn = "read_contents"
                    /\ stack[q - 1].fn = "read_contents") =>
                \A s \in Kids(FrameNode(q - 1)) :
                    (s < FrameNode(q) /\ IsExpandable(s)) => state[s] = "collapsed"

\* A read from the root of the page with two expandable siblings: the root
\* was expanded, then each child expanded and collapsed in its turn, then the
\* root collapsed.
C23_Witness ==
    /\ Ended("read_contents")
    /\ call.collapse
    /\ ret.kind = "value"
    /\ tree = TreePair
    /\ [k \in 1..Len(clicks) |-> clicks[k].node] = <<1, 2, 2, 4, 4, 1>>

\* The nodes expand_path has matched so far.
Matched == {validated[k].node : k \in {j \in 1..Len(validated) : validated[j].res}}

\* C24: expand_path clicks only expand icons, of nodes it has matched, each
\* at most once and none that was expanded, and never the one of the node it
\* returns; no node that was expanded before the call is collapsed by it;
\* and when it ends, with a node or with an error, every node it clicked is
\* expanded, but for the node whose wait timed out.
C24_ExpandsAncestorsOnly ==
    call.op = "expand_path" =>
        /\ \A k \in 1..Len(clicks) :
            /\ clicks[k].kind = "arrow"
            /\ clicks[k].was # "expanded"
            /\ clicks[k].node \in Matched
            /\ \A j \in 1..Len(clicks) : clicks[j].node = clicks[k].node => j = k
        /\ \A n \in Nodes : pre[n] = "expanded" => state[n] = "expanded"
        /\ Done =>
            /\ ret.kind = "value" =>
                \A k \in 1..Len(clicks) : clicks[k].node # ret.val
            /\ \A k \in 1..Len(clicks) :
                (k < Len(clicks) \/ ret # Exc("TimedOutError", ""))
                    => state[clicks[k].node] = "expanded"

\* expand_path has failed at its third step on the single-root page, after
\* expanding the root and its child, which stay expanded.
C24_Witness ==
    /\ Ended("expand_path")
    /\ tree = TreeSingle
    /\ ret = Exc("CandidateNotFound", "Was not found")
    /\ [k \in 1..Len(clicks) |-> clicks[k].node] = <<1, 2>>
    /\ pre[1] = "collapsed" /\ pre[2] = "collapsed"
    /\ state[1] = "expanded" /\ state[2] = "expanded"

\* C25: the children enumerated for a node, with and without a text filter,
\* are all children of that node: an item whose data-nodeid merely starts
\* with the node's ("10.0" for the node "1") is never among them.
C25_OnlyOwnChildren ==
    \A n \in rendered :
        /\ Elems(ChildItems(n)) \subseteq Kids(n)
        /\ \A text \in StepTexts :
            Elems(ChildItemsWithText(n, text)) \subseteq Kids(n)

\* The node the scan of items selects for the step ps, None if none.
Selected(items, ps) ==
    IF FirstMatch(items, ps) = 0 THEN None ELSE items[FirstMatch(items, ps)]

StrSteps == {ProcessStep(s) : s \in {t \in Steps : t.kind = "str"}}

\* C26: for a string step, scanning the children filtered by the text
\* selects the node that scanning all the children selects (none when that
\* finds none); the filter keeps every child whose text equals the step and
\* keeps the document order.
C26_FilterIsOptimisation ==
    \A n \in rendered \cup {None} : \A ps \in StrSteps :
        LET filtered == ChildItemsWithText(n, ps.val)
            all == ChildItems(n)
        IN /\ Selected(filtered, ps) = Selected(all, ps)
           /\ \A c \in Elems(all) : Text(c) = ps.val => c \in Elems(filtered)
           /\ Elems(filtered) \subseteq Elems(all)
           /\ \A j, k \in 1..Len(filtered) : j < k => filtered[j] < filtered[k]

\* expand_path has returned the root "1" of the eleven roots for the step
\* 'P1': the filter left one candidate of the eleven.
C26_Witness ==
    /\ Ended("expand_path")
    /\ tree = TreeWide
    /\ call.path = <<StrStep(<<"P", "1">>)>>
    /\ ret.kind = "value" /\ ret.val = 2
    /\ Len(ChildItemsWithText(None, <<"P", "1">>)) = 1
    /\ Len(ChildItems(None)) = 11

\* C27: every call of expand_node or collapse_node ends, with a value or
\* with an error, whatever the page does meanwhile, and clicks the expand
\* icon once at most.
C27_CallCompletes ==
    /\ [](call.op \in {"expand_node", "collapse_node"} => Len(clicks) <= 1)
    /\ (stack # <<>>) ~> Done

\* expand_node has clicked the icon of a collapsed node, the node is still
\* loading, and the call has ended with the timeout of its wait.
C27_Witness ==
    /\ Ended("expand_node")
    /\ ret = Exc("TimedOutError", "")
    /\ Len(clicks) = 1 /\ clicks[1].was = "collapsed"
    /\ state[clicks[1].node] = "loading"

\* C28: item_select ends with DropdownDisabled and without a click when the
\* dropdown is disabled, and with DropdownItemDisabled and without a click
\* on the item when the item is disabled in an enabled dropdown.
C28_DisabledRaises ==
    dropdown.pc = "done" =>
        /\ ~dropdown.enabled =>
            dropdown.exc = "DropdownDisabled" /\ dropdown.clicked = <<>>
        /\ (/\ dropdown.enabled
            /\ dropdown.item \in DropdownItems
            /\ dropdown.lis[dropdown.item]) =>
                /\ dropdown.exc = "DropdownItemDisabled"
                /\ dropdown.item \notin Elems(dropdown.clicked)

\* The number of decades from a year d years outside the decade shown.
Ceil10(d) == (d + 9) \div 10

\* C29: open() clicks the header twice at most and only after it has seen
\* the accordion closed; it returns only after it has seen it opened; and
\* when the second wait ends with the accordion seen closed, it raises.
C29_OpenClicksTwiceAtMost ==
    /\ Len(accordion.clicked) <= 2
    /\ \A k \in 1..Len(accordion.clicked) : accordion.clicked[k] = "closed"
    /\ accordion.pc = "done" =>
        /\ accordion.exc = NoExc => accordion.seen = "opened"
        /\ (accordion.waits = 2 /\ accordion.seen = "closed") =>
                accordion.exc = "Exception"

\* open() has clicked twice, waited twice and raised.
C29_Witness ==
    /\ accordion.pc = "done"
    /\ Len(accordion.clicked) = 2
    /\ accordion.waits = 2
    /\ accordion.seen = "closed"
    /\ accordion.exc = "Exception"

\* C30: when select(value) has picked, it has clicked 'next'
\* ceil((value - end_yr) / 10) times for a value after the decade shown,
\* 'prev' ceil((start_yr - value) / 10) times for a value before it, and
\* nothing else; the decade then shown holds the value, which is picked.
C30_DecadeClicks ==
    datepicker.pc = "done" =>
        LET start_yr == datepicker.first
            end_yr == datepicker.first + 9
            value == datepicker.value
        IN /\ value > end_yr =>
                datepicker.nexts = Ceil10(value - end_yr) /\ datepicker.prevs = 0
           /\ value < start_yr =>
                datepicker.prevs = Ceil10(start_yr - value) /\ datepicker.nexts = 0
           /\ (start_yr <= value /\ value <= end_yr) =>
                datepicker.nexts = 0 /\ datepicker.prevs = 0
           /\ datepicker.start <= value /\ value <= datepicker.start + 9
           /\ datepicker.picked = value

\* select(2021) with the decade 2000-2009 shown has clicked 'next' twice.
C30_Witness ==
    /\ datepicker.pc = "done"
    /\ datepicker.first = 2000
    /\ datepicker.value = 2021
    /\ datepicker.nexts = 2
    /\ datepicker.start = 2020

====
